---- MODULE Spec2Model ----
(***************************************************************************)
(* Model of the unified-diff parser of the AI code review agent            *)
(* (src/src/diff_parser.py).  A text is a sequence of one-character        *)
(* strings; a line list is a sequence of texts.  parse_diff is modelled    *)
(* twice from the same step operators: as a scanner that reads one line    *)
(* per step (the actions), and as the function ParseDiff (a fold of the    *)
(* same steps) used to compare the results of two inputs.                  *)
(***************************************************************************)
EXTENDS Integers, Sequences, FiniteSets, TLC

(***************************************************************************)
(* Bounds of the model.                                                    *)
(***************************************************************************)
\* the longest input, in lines
MaxLines == 4
\* the longest buffer handed to _build_chunk on its own, in lines
MaxBuffer == 3
\* the longest input of a call that follows or runs beside another call, in lines
MaxCallLines == 3
\* the largest number of rows saved in the database on its own
MaxRows == 3
\* the seconds the clock advances in one step, and the last second of a run
TickSeconds == 61
MaxTime == 61

(***************************************************************************)
(* Python string and list primitives.                                      *)
(***************************************************************************)
\* Python's None, told apart from every text (texts hold one-character strings)
None == <<"None">>

\* str.startswith
StartsWith(s, p) == Len(s) >= Len(p) /\ SubSeq(s, 1, Len(p)) = p

\* the index of the first occurrence of sep in s at or after i, 0 when absent
RECURSIVE FindFrom(_, _, _)
FindFrom(s, sep, i) ==
    IF i + Len(sep) - 1 > Len(s) THEN 0
    ELSE IF SubSeq(s, i, i + Len(sep) - 1) = sep THEN i
    ELSE FindFrom(s, sep, i + 1)

\* str.split(sep) for a non-empty separator
RECURSIVE Split(_, _)
Split(s, sep) ==
    LET i == FindFrom(s, sep, 1)
    IN  IF i = 0 THEN <<s>>
        ELSE <<SubSeq(s, 1, i - 1)>> \o Split(SubSeq(s, i + Len(sep), Len(s)), sep)

\* sep.join(parts)
RECURSIVE Join(_, _)
Join(parts, sep) ==
    IF parts = <<>> THEN <<>>
    ELSE IF Len(parts) = 1 THEN parts[1]
    ELSE parts[1] \o sep \o Join(Tail(parts), sep)

\* the newline character
NL == <<"\n">>

\* l[1:]
DropFirst(l) == SubSeq(l, 2, Len(l))

\* s[i-1:j] on 1-based inclusive indexes: a slice never fails, it is cut at the end
Slice(s, i, j) == SubSeq(s, i, IF j > Len(s) THEN Len(s) ELSE j)

\* truthiness of a str-or-None value and of a list
Truthy(v) == v /= None /\ v /= <<>>

(***************************************************************************)
(* The texts the inputs are built from.                                    *)
(***************************************************************************)
DiffGit == <<"d","i","f","f"," ","-","-","g","i","t">>

\* "diff --git a/m.py b/m.py"
FilePy == DiffGit \o <<" ","a","/","m",".","p","y"," ","b","/","m",".","p","y">>
\* "diff --git a/n.js b/n.js"
FileJs == DiffGit \o <<" ","a","/","n",".","j","s"," ","b","/","n",".","j","s">>
\* "diff --git a/q": a file header without the new-side marker
FileNoMarker == DiffGit \o <<" ","a","/","q">>
\* "@@ -0,0 +12 @@ f": a well-formed hunk header, the old side with a count
\* (and line 0, as for a new file), the new side without, then trailing text
HunkA == <<"@","@"," ","-","0",",","0"," ","+","1","2"," ","@","@"," ","f">>
\* "@@ x @@": a hunk header that does not match the pattern
HunkBad == <<"@","@"," ","x"," ","@","@">>
\* "+a", "-b", " c"
AddLine == <<"+","a">>
DelLine == <<"-","b">>
CtxLine == <<" ","c">>
\* "--- q": the old-side file line, or the removal of a line "-- q"
DashLine == <<"-","-","-"," ","q">>

LinePool ==
    { FilePy, FileJs, FileNoMarker, HunkA, HunkBad,
      AddLine, DelLine, CtxLine, DashLine }

\* the lists of at most n lines of a pool
RECURSIVE ListsOver(_, _)
ListsOver(pool, n) ==
    IF n = 0 THEN {<<>>}
    ELSE LET shorter == ListsOver(pool, n - 1)
         IN  shorter \cup {Append(ls, l) : ls \in {x \in shorter : Len(x) = n - 1}, l \in pool}

\* the line lists of at most n lines
LineLists(n) == ListsOver(LinePool, n)

\* "@@ -3,2 +5 @@": a second well-formed hunk header
HunkB == <<"@","@"," ","-","3",",","2"," ","+","5"," ","@","@">>

\* "+++i": the addition of a line "++i"
TriplePlus == <<"+","+","+","i">>
\* "+": the addition of an empty line
AddEmpty == <<"+">>
\* the empty line
EmptyLine == <<>>
\* "\ No newline at end of file"
NoNewline == <<"\\"," ","N","o"," ","n","e","w","l","i","n","e"," ","a","t"," ",
               "e","n","d"," ","o","f"," ","f","i","l","e">>

\* the raw lines the buffers handed to _build_chunk are built from
BufferPool ==
    { HunkA, AddLine, DelLine, CtxLine, DashLine, TriplePlus, AddEmpty,
      EmptyLine, NoNewline }

\* the pool of the inputs of repeated and of simultaneous calls
CallPool == { FilePy, HunkA, AddLine, DashLine }

\* the inputs of the other call: the call between two equal calls, and the
\* call that runs at the same time
OtherInputs ==
    { <<FileJs, HunkB, DelLine>>, <<FilePy, HunkA>>, <<HunkA, AddLine>>, <<DashLine>> }

\* "diff --git a/x b/": a file header with nothing after the marker
FileEmptyPath == DiffGit \o <<" ","a","/","x"," ","b","/">>
\* "diff --git a/z b/m.py b/z b/m.py": the header of a file "m.py" in a
\* directory named "z b"
FileSpaced == DiffGit \o <<" ","a","/","z"," ","b","/","m",".","p","y",
                           " ","b","/","z"," ","b","/","m",".","p","y">>
\* "diff --git a/q b/q": a file without an extension
FileUnknown == DiffGit \o <<" ","a","/","q"," ","b","/","q">>

\* the pool of the inputs with several kinds of file paths
PathLinePool ==
    { FilePy, FileEmptyPath, FileSpaced, FileUnknown, HunkA, AddLine, DashLine }

\* the pool of the inputs with two different well-formed hunk headers
HeaderPool == { FilePy, FileNoMarker, HunkA, HunkB, HunkBad, AddLine, DashLine }

(***************************************************************************)
(* detect_language                                                         *)
(***************************************************************************)
Upper == <<"A","B","C","D","E","F","G","H","I","J","K","L","M",
           "N","O","P","Q","R","S","T","U","V","W","X","Y","Z">>
Lower == <<"a","b","c","d","e","f","g","h","i","j","k","l","m",
           "n","o","p","q","r","s","t","u","v","w","x","y","z">>

\* str.lower
LowerChar(c) ==
    IF \E i \in 1..26 : Upper[i] = c
    THEN Lower[CHOOSE i \in 1..26 : Upper[i] = c]
    ELSE c
ToLower(s) == [i \in 1..Len(s) |-> LowerChar(s[i])]

\* the index of the last occurrence of character c in s, 0 when absent
RECURSIVE LastIndex(_, _)
LastIndex(s, c) ==
    IF s = <<>> THEN 0
    ELSE IF s[Len(s)] = c THEN Len(s)
    ELSE LastIndex(SubSeq(s, 1, Len(s) - 1), c)

\* Path(p)._parts without the root: the text between the slashes, the empty
\* and the "." components left out
PathParts(p) ==
    SelectSeq(Split(p, <<"/">>), LAMBDA x : x /= <<>> /\ x /= <<".">>)

\* Path(p).name: the last component of the path, "" when there is none
PathName(p) ==
    LET parts == PathParts(p)
    IN  IF parts = <<>> THEN <<>> ELSE parts[Len(parts)]

\* Path(p).suffix: from the last dot of the name, when that dot is
\* neither the first nor the last character of the name
PathSuffix(p) ==
    LET name == PathName(p)
        i == LastIndex(name, ".")
    IN  IF i > 1 /\ i < Len(name) THEN SubSeq(name, i, Len(name)) ELSE <<>>

EXTENSION_MAP ==
    << <<<<".","p","y">>, "python">>,
       <<<<".","j","s">>, "javascript">>,
       <<<<".","t","s">>, "typescript">>,
       <<<<".","t","s","x">>, "typescript">>,
       <<<<".","j","s","x">>, "javascript">>,
       <<<<".","j","a","v","a">>, "java">>,
       <<<<".","g","o">>, "go">>,
       <<<<".","r","s">>, "rust">>,
       <<<<".","r","b">>, "ruby">>,
       <<<<".","c","p","p">>, "cpp">>,
       <<<<".","c">>, "c">>,
       <<<<".","c","s">>, "csharp">> >>

\* detect_language without .lower()
DetectCaseSensitive(file_path) ==
    LET ext == PathSuffix(file_path)
    IN  IF \E i \in 1..Len(EXTENSION_MAP) : EXTENSION_MAP[i][1] = ext
        THEN EXTENSION_MAP[CHOOSE i \in 1..Len(EXTENSION_MAP) : EXTENSION_MAP[i][1] = ext][2]
        ELSE "unknown"

detect_language(file_path) ==
    LET ext == ToLower(PathSuffix(file_path))
    IN  IF \E i \in 1..Len(EXTENSION_MAP) : EXTENSION_MAP[i][1] = ext
        THEN EXTENSION_MAP[CHOOSE i \in 1..Len(EXTENSION_MAP) : EXTENSION_MAP[i][1] = ext][2]
        ELSE "unknown"

(***************************************************************************)
(* HUNK_HEADER_RE and int()                                                *)
(***************************************************************************)
Digits == <<"0","1","2","3","4","5","6","7","8","9">>
IsDigit(c) == \E i \in 1..10 : Digits[i] = c
DigitValue(c) == (CHOOSE i \in 1..10 : Digits[i] = c) - 1

\* the number of consecutive digits of s from index i on (the greedy \d+)
RECURSIVE DigitRun(_, _)
DigitRun(s, i) ==
    IF i <= Len(s) /\ IsDigit(s[i]) THEN 1 + DigitRun(s, i + 1) ELSE 0

\* int() of a non-empty text of decimal digits
RECURSIVE ToInt(_)
ToInt(ds) ==
    IF ds = <<>> THEN 0
    ELSE 10 * ToInt(SubSeq(ds, 1, Len(ds) - 1)) + DigitValue(ds[Len(ds)])

\* the index after the optional group (?:,\d+)? tried at index i
AfterCount(s, i) ==
    IF i <= Len(s) /\ s[i] = "," /\ DigitRun(s, i + 1) > 0
    THEN i + 1 + DigitRun(s, i + 1)
    ELSE i

\* HUNK_HEADER_RE.match(line): ^@@ -(\d+)(?:,\d+)? \+(\d+)(?:,\d+)? @@
\* [matched, old, new]; old and new are group(1) and group(2) as integers
HunkHeaderMatch(line) ==
    LET n1 == DigitRun(line, 5)
        a  == AfterCount(line, 5 + n1)
        n2 == DigitRun(line, a + 2)
        b  == AfterCount(line, a + 2 + n2)
        ok == /\ StartsWith(line, <<"@","@"," ","-">>)
              /\ n1 > 0
              /\ Slice(line, a, a + 1) = <<" ","+">>
              /\ n2 > 0
              /\ Slice(line, b, b + 2) = <<" ","@","@">>
    IN  IF ok
        THEN [matched |-> TRUE,
              old |-> ToInt(SubSeq(line, 5, 4 + n1)),
              new |-> ToInt(SubSeq(line, a + 2, a + 1 + n2))]
        ELSE [matched |-> FALSE, old |-> 0, new |-> 0]

(***************************************************************************)
(* _build_chunk                                                            *)
(***************************************************************************)
\* AddedOf without the test for "+++"
AddedOfAnyPlus(lines) ==
    LET keep == SelectSeq(lines, LAMBDA l : StartsWith(l, <<"+">>))
    IN  [i \in 1..Len(keep) |-> DropFirst(keep[i])]

\* ContextOf taking every line without "+", "-" or "@" for context
ContextOfUnmarked(lines) ==
    LET keep == SelectSeq(lines, LAMBDA l :
                    /\ ~StartsWith(l, <<"+">>) /\ ~StartsWith(l, <<"-">>)
                    /\ ~StartsWith(l, <<"@">>))
    IN  [i \in 1..Len(keep) |-> DropFirst(keep[i])]

\* the list comprehensions of _build_chunk
AddedOf(lines) ==
    LET keep == SelectSeq(lines, LAMBDA l :
                    StartsWith(l, <<"+">>) /\ ~StartsWith(l, <<"+","+","+">>))
    IN  [i \in 1..Len(keep) |-> DropFirst(keep[i])]
RemovedOf(lines) ==
    LET keep == SelectSeq(lines, LAMBDA l :
                    StartsWith(l, <<"-">>) /\ ~StartsWith(l, <<"-","-","-">>))
    IN  [i \in 1..Len(keep) |-> DropFirst(keep[i])]
ContextOf(lines) ==
    LET keep == SelectSeq(lines, LAMBDA l : StartsWith(l, <<" ">>))
    IN  [i \in 1..Len(keep) |-> DropFirst(keep[i])]

\* _build_chunk: the empty list for None, a one-element list for a DiffChunk
build_chunk(file_path, old_start, new_start, lines) ==
    IF ~Truthy(file_path) THEN <<>>
    ELSE << [file_path |-> file_path,
             language |-> detect_language(file_path),
             old_start |-> old_start,
             new_start |-> new_start,
             content |-> Join(lines, NL),
             added_lines |-> AddedOf(lines),
             removed_lines |-> RemovedOf(lines),
             context_lines |-> ContextOf(lines)] >>

(***************************************************************************)
(* parse_diff: the classification of a line and the loop body              *)
(***************************************************************************)
\* supported_languages: absent (None), or a list of language tags
NoFilter == [given |-> FALSE, langs |-> <<>>]
Only(langs) == [given |-> TRUE, langs |-> langs]

\* Accepts with "unknown" let through by every allow-list
AcceptsUnknown(langs, chunk) ==
    \/ ~langs.given
    \/ chunk.language = "unknown"
    \/ \E i \in 1..Len(langs.langs) : langs.langs[i] = chunk.language

\* "not supported_languages or ...": the empty list taken for None
AcceptsEmptyAsAbsent(langs, chunk) ==
    \/ ~langs.given \/ langs.langs = <<>>
    \/ \E i \in 1..Len(langs.langs) : langs.langs[i] = chunk.language

\* supported_languages is None or chunk.language in supported_languages
Accepts(langs, chunk) ==
    ~langs.given \/ \E i \in 1..Len(langs.langs) : langs.langs[i] = chunk.language

IsFileHeader(line) == StartsWith(line, DiffGit)

\* IsMetadata without the "--- " prefix
IsMetadataNoDash(line) ==
    \/ StartsWith(line, <<"i","n","d","e","x"," ">>)
    \/ StartsWith(line, <<"+","+","+"," ">>)

IsMetadata(line) ==
    \/ StartsWith(line, <<"i","n","d","e","x"," ">>)
    \/ StartsWith(line, <<"-","-","-"," ">>)
    \/ StartsWith(line, <<"+","+","+"," ">>)
IsHunkHeader(line) == StartsWith(line, <<"@","@">>)

\* parts[-1] if len(parts) > 1 else None, with parts = line.split(" b/")
ExtractPath(line) ==
    LET parts == Split(line, <<" ","b","/">>)
    IN  IF Len(parts) > 1 THEN parts[Len(parts)] ELSE None

\* InitLocals with -1 as the "no offset yet" value
InitLocalsMinusOne ==
    [chunks |-> <<>>, current_file |-> None, current_hunks |-> <<>>,
     hunk_old_start |-> -1, hunk_new_start |-> -1, in_hunk |-> FALSE]

\* the local variables of parse_diff before the loop
InitLocals ==
    [chunks |-> <<>>, current_file |-> None, current_hunks |-> <<>>,
     hunk_old_start |-> 0, hunk_new_start |-> 0, in_hunk |-> FALSE]

\* Flush with the buffer emptied only when the chunk is kept
FlushClearsOnAccept(st, langs) ==
    IF Truthy(st.current_file) /\ st.current_hunks /= <<>>
    THEN LET built == build_chunk(st.current_file, st.hunk_old_start,
                                  st.hunk_new_start, st.current_hunks)
             kept == SelectSeq(built, LAMBDA c : Accepts(langs, c))
         IN  [st EXCEPT !.chunks = @ \o kept,
                        !.current_hunks = IF kept = <<>> THEN @ ELSE <<>>]
    ELSE st

\* Flush with the output list assigned instead of appended to
FlushOverwrites(st, langs) ==
    IF Truthy(st.current_file) /\ st.current_hunks /= <<>>
    THEN LET built == build_chunk(st.current_file, st.hunk_old_start,
                                  st.hunk_new_start, st.current_hunks)
         IN  [st EXCEPT !.chunks = SelectSeq(built, LAMBDA c : Accepts(langs, c)),
                        !.current_hunks = <<>>]
    ELSE st

\* Flush with the new chunk put in front of the output
FlushPrepends(st, langs) ==
    IF Truthy(st.current_file) /\ st.current_hunks /= <<>>
    THEN LET built == build_chunk(st.current_file, st.hunk_old_start,
                                  st.hunk_new_start, st.current_hunks)
         IN  [st EXCEPT !.chunks = SelectSeq(built, LAMBDA c : Accepts(langs, c)) \o @,
                        !.current_hunks = <<>>]
    ELSE st

\* "save previous hunk": the flush at a file header and at a hunk header
Flush(st, langs) ==
    IF Truthy(st.current_file) /\ st.current_hunks /= <<>>
    THEN LET built == build_chunk(st.current_file, st.hunk_old_start,
                                  st.hunk_new_start, st.current_hunks)
         IN  [st EXCEPT !.chunks = @ \o SelectSeq(built, LAMBDA c : Accepts(langs, c)),
                        !.current_hunks = <<>>]
    ELSE st

\* the branch of a "diff --git" line
OnFileHeader(st, line, langs) ==
    [Flush(st, langs) EXCEPT !.current_file = ExtractPath(line), !.in_hunk = FALSE]

\* the branch of an "@@" line
OnHunkHeader(st, line, langs) ==
    LET f == Flush(st, langs)
        m == HunkHeaderMatch(line)
    IN  [f EXCEPT !.hunk_old_start = IF m.matched THEN m.old ELSE @,
                  !.hunk_new_start = IF m.matched THEN m.new ELSE @,
                  !.current_hunks = Append(@, line),
                  !.in_hunk = TRUE]

\* the last branch: a line inside a hunk of an active file
OnBodyLine(st, line) == [st EXCEPT !.current_hunks = Append(@, line)]

\* FinalFlush left out: the loop's result returned as it is
FinalFlushForgotten(st, langs) == st

\* FinalFlush for every active file, whether or not lines are buffered
FinalFlushNoBufferTest(st, langs) ==
    IF Truthy(st.current_file)
    THEN LET built == build_chunk(st.current_file, st.hunk_old_start,
                                  st.hunk_new_start, st.current_hunks)
         IN  [st EXCEPT !.chunks = @ \o SelectSeq(built, LAMBDA c : Accepts(langs, c))]
    ELSE st

\* "don't forget the last hunk": the flush after the loop
FinalFlush(st, langs) ==
    IF Truthy(st.current_file) /\ st.current_hunks /= <<>>
    THEN LET built == build_chunk(st.current_file, st.hunk_old_start,
                                  st.hunk_new_start, st.current_hunks)
         IN  [st EXCEPT !.chunks = @ \o SelectSeq(built, LAMBDA c : Accepts(langs, c))]
    ELSE st

\* one iteration of the loop
Step(st, line, langs) ==
    IF IsFileHeader(line) THEN OnFileHeader(st, line, langs)
    ELSE IF IsMetadata(line) THEN st
    ELSE IF IsHunkHeader(line) THEN OnHunkHeader(st, line, langs)
    ELSE IF Truthy(st.current_file) /\ st.in_hunk THEN OnBodyLine(st, line)
    ELSE st

\* the loop over the first n lines
RECURSIVE Scan(_, _, _)
Scan(lines, n, langs) ==
    IF n = 0 THEN InitLocals ELSE Step(Scan(lines, n - 1, langs), lines[n], langs)

\* parse_diff(raw_diff, supported_languages)
ParseDiff(raw_diff, langs) ==
    LET lines == Split(raw_diff, NL)
    IN  FinalFlush(Scan(lines, Len(lines), langs), langs).chunks

(***************************************************************************)
(* The scanner: one call of parse_diff, one line per step.                 *)
(***************************************************************************)
VARIABLES
    lines,                \* raw_diff.split("\n")
    supported_languages,  \* the allow-list argument
    pos,                  \* the number of lines the loop has read
    pc,                   \* "scan" inside the loop, "done" after the return
    chunks, current_file, current_hunks, hunk_old_start, hunk_new_start, in_hunk,
    language,             \* the value detect_language returned, called on its own
    calls,                \* the earlier calls of parse_diff, with what they returned
    threads,              \* parse_diff calls running at the same time
    reviews,              \* the rows of the table "reviews" of the database
    saved,                \* the arguments of the save_review calls, in call order
    answer,               \* what the last query of the database returned
    settings,             \* get_settings(): the configuration of the server
    handlers,             \* the handle_webhook calls in progress or just over
    review_timestamps,    \* app._review_timestamps
    github,               \* the GitHub side: the reviews and comments posted
    now                   \* the clock, in seconds

\* the database and the webhook server
service == <<reviews, saved, answer, settings, handlers, review_timestamps, github, now>>

vars == <<lines, supported_languages, pos, pc,
          chunks, current_file, current_hunks, hunk_old_start, hunk_new_start, in_hunk,
          language, calls, threads, service>>

\* no query answered yet
NoAnswer == [op |-> "none"]

\* the parser used on its own: no database, no server
NoService ==
    /\ reviews = {} /\ saved = <<>> /\ answer = NoAnswer
    /\ settings = [configured |-> FALSE]
    /\ handlers = <<>> /\ review_timestamps = <<>> /\ github = <<>> /\ now = 0

\* what a single call of parse_diff leaves alone
outside == <<language, calls, threads, service>>
Nothing == language = "" /\ calls = <<>> /\ threads = <<>> /\ NoService

\* the allow-lists the calls are made with
FilterPool == { NoFilter, Only(<<"python">>) }

\* the local variables as one record
Locals ==
    [chunks |-> chunks, current_file |-> current_file, current_hunks |-> current_hunks,
     hunk_old_start |-> hunk_old_start, hunk_new_start |-> hunk_new_start,
     in_hunk |-> in_hunk]

SetLocals(st) ==
    /\ chunks' = st.chunks
    /\ current_file' = st.current_file
    /\ current_hunks' = st.current_hunks
    /\ hunk_old_start' = st.hunk_old_start
    /\ hunk_new_start' = st.hunk_new_start
    /\ in_hunk' = st.in_hunk

\* the entry of a call whose text is one of inputs (as line lists) and whose
\* allow-list is one of filters
EnterCall(inputs, filters) ==
    /\ \E ls \in inputs : lines = Split(Join(ls, NL), NL)
    /\ supported_languages \in filters
    /\ pos = 0
    /\ pc = "scan"
    /\ chunks = InitLocals.chunks
    /\ current_file = InitLocals.current_file
    /\ current_hunks = InitLocals.current_hunks
    /\ hunk_old_start = InitLocals.hunk_old_start
    /\ hunk_new_start = InitLocals.hunk_new_start
    /\ in_hunk = InitLocals.in_hunk

Init == EnterCall(LineLists(MaxLines), FilterPool) /\ Nothing

\* the loop has a next line with a first character to look at
HasLineNonEmpty == pc = "scan" /\ pos < Len(lines) /\ lines[pos + 1] /= <<>>

\* the loop has a next line
HasLine == pc = "scan" /\ pos < Len(lines)
NextLine == lines[pos + 1]

Advance == pos' = pos + 1 /\ UNCHANGED <<lines, supported_languages, pc, outside>>

\* a "diff --git" line
FileHeaderLine ==
    /\ HasLine /\ IsFileHeader(NextLine)
    /\ SetLocals(OnFileHeader(Locals, NextLine, supported_languages))
    /\ Advance

\* an "index ", "--- " or "+++ " line: continue
MetadataLine ==
    /\ HasLine /\ ~IsFileHeader(NextLine) /\ IsMetadata(NextLine)
    /\ SetLocals(Locals)
    /\ Advance

\* an "@@" line
HunkHeaderLine ==
    /\ HasLine /\ ~IsFileHeader(NextLine) /\ ~IsMetadata(NextLine)
    /\ IsHunkHeader(NextLine)
    /\ SetLocals(OnHunkHeader(Locals, NextLine, supported_languages))
    /\ Advance

\* any other line while a file is active and a hunk is open
BodyLine ==
    /\ HasLine /\ ~IsFileHeader(NextLine) /\ ~IsMetadata(NextLine)
    /\ ~IsHunkHeader(NextLine)
    /\ Truthy(current_file) /\ in_hunk
    /\ SetLocals(OnBodyLine(Locals, NextLine))
    /\ Advance

\* any other line otherwise: no branch is taken
IgnoredLine ==
    /\ HasLine /\ ~IsFileHeader(NextLine) /\ ~IsMetadata(NextLine)
    /\ ~IsHunkHeader(NextLine)
    /\ ~(Truthy(current_file) /\ in_hunk)
    /\ SetLocals(Locals)
    /\ Advance

\* the end of the loop: the last flush and the return
EndOfInput ==
    /\ pc = "scan" /\ pos = Len(lines)
    /\ SetLocals(FinalFlush(Locals, supported_languages))
    /\ pc' = "done"
    /\ UNCHANGED <<lines, supported_languages, pos, outside>>

Next ==
    \/ FileHeaderLine
    \/ MetadataLine
    \/ HunkHeaderLine
    \/ BodyLine
    \/ IgnoredLine
    \/ EndOfInput

Spec == Init /\ [][Next]_vars

\* calls on inputs with two different well-formed hunk headers
InitHeaders == EnterCall(ListsOver(HeaderPool, MaxLines), FilterPool) /\ Nothing
SpecHeaders == InitHeaders /\ [][Next]_vars

\* calls on inputs with several kinds of file paths, with three allow-lists
PathFilterPool == { NoFilter, Only(<<"python">>), Only(<<"unknown">>) }
InitPaths == EnterCall(ListsOver(PathLinePool, MaxLines), PathFilterPool) /\ Nothing
SpecPaths == InitPaths /\ [][Next]_vars

(***************************************************************************)
(* _build_chunk called on its own, as by test_build_chunk.                 *)
(***************************************************************************)
\* "m.py"
PathPy == <<"m",".","p","y">>

InitBuild ==
    /\ current_file \in {PathPy, <<>>}
    /\ current_hunks \in ListsOver(BufferPool, MaxBuffer)
    /\ hunk_old_start = 10 /\ hunk_new_start = 10
    /\ pc = "build"
    /\ chunks = <<>>
    /\ lines = <<>> /\ supported_languages = NoFilter /\ pos = 0 /\ in_hunk = FALSE
    /\ Nothing

\* chunk = _build_chunk(file_path, old_start, new_start, lines)
BuildChunk ==
    /\ pc = "build"
    /\ chunks' = build_chunk(current_file, hunk_old_start, hunk_new_start, current_hunks)
    /\ pc' = "built"
    /\ UNCHANGED <<lines, supported_languages, pos, current_file, current_hunks,
                   hunk_old_start, hunk_new_start, in_hunk, outside>>

NextBuild == BuildChunk

SpecBuild == InitBuild /\ [][NextBuild]_vars

(***************************************************************************)
(* detect_language called on its own, as by test_detect_language.          *)
(***************************************************************************)
\* the paths: a directory part, a stem, an extension and an ending
PathDirs == { <<>>, <<"a","/">>, <<"a",".","p","y","/">>, <<"/">> }
PathStems == { <<>>, <<"m">>, <<"M",".","t","a","r">>, <<".">> }
PathExts ==
    { <<>>, <<".">>, <<".","p","y">>, <<".","P","Y">>, <<".","p","y","c">>,
      <<".","J","s">>, <<".","j","s","x">>, <<".","t","s">>, <<".","T","S","X">>,
      <<".","j","a","v","a">>, <<".","g","o">>, <<".","r","s">>, <<".","r","b">>,
      <<".","c","p","p">>, <<".","c">>, <<".","C","s">>, <<".","x","y","z">> }
PathEnds == { <<>>, <<"/">>, <<"/",".">> }
PathPool == { d \o st \o x \o e : d \in PathDirs, st \in PathStems, x \in PathExts, e \in PathEnds }

InitDetect ==
    /\ current_file \in PathPool
    /\ language = ""
    /\ pc = "detect"
    /\ calls = <<>> /\ threads = <<>> /\ NoService
    /\ lines = <<>> /\ supported_languages = NoFilter /\ pos = 0
    /\ chunks = <<>> /\ current_hunks = <<>> /\ in_hunk = FALSE
    /\ hunk_old_start = 0 /\ hunk_new_start = 0

\* language = detect_language(file_path)
DetectLanguage ==
    /\ pc = "detect"
    /\ language' = detect_language(current_file)
    /\ pc' = "detected"
    /\ UNCHANGED <<lines, supported_languages, pos, chunks, current_file, current_hunks,
                   hunk_old_start, hunk_new_start, in_hunk, calls, threads, service>>

NextDetect == DetectLanguage

SpecDetect == InitDetect /\ [][NextDetect]_vars

(***************************************************************************)
(* Calls of parse_diff one after the other: a first call, any second call, *)
(* then the first call again.                                              *)
(***************************************************************************)
\* the input text of the call
RawDiff == Join(lines, NL)

\* EnterLocals with the output list of the call before kept
EnterLocalsKeepsOutput(left) == [InitLocals EXCEPT !.chunks = left.chunks]

\* the local variables at the entry of a call, given what the call before
\* left in them: lines 48-54 assign every one of them anew
EnterLocals(left) == InitLocals

InitCalls == EnterCall(ListsOver(CallPool, MaxCallLines), FilterPool) /\ Nothing

\* what the call that has returned is remembered by
ThisCall ==
    [raw_diff |-> RawDiff, langs |-> supported_languages, result |-> chunks]

\* after the first call has returned: a call with any input and allow-list
StartCall ==
    /\ pc = "done" /\ calls = <<>>
    /\ calls' = Append(calls, ThisCall)
    /\ \E ls \in OtherInputs : lines' = Split(Join(ls, NL), NL)
    /\ supported_languages' \in FilterPool
    /\ pos' = 0 /\ pc' = "scan"
    /\ SetLocals(EnterLocals(Locals))
    /\ UNCHANGED <<language, threads, service>>

\* after the second call has returned: the first call again
RepeatCall ==
    /\ pc = "done" /\ Len(calls) = 1
    /\ calls' = Append(calls, ThisCall)
    /\ lines' = Split(calls[1].raw_diff, NL)
    /\ supported_languages' = calls[1].langs
    /\ pos' = 0 /\ pc' = "scan"
    /\ SetLocals(EnterLocals(Locals))
    /\ UNCHANGED <<language, threads, service>>

NextCalls ==
    \/ FileHeaderLine
    \/ MetadataLine
    \/ HunkHeaderLine
    \/ BodyLine
    \/ IgnoredLine
    \/ EndOfInput
    \/ StartCall
    \/ RepeatCall

SpecCalls == InitCalls /\ [][NextCalls]_vars

(***************************************************************************)
(* Two calls of parse_diff running at the same time, each with its own     *)
(* local variables; a step of a call reads one line.                       *)
(***************************************************************************)
Threads == {1, 2}

\* ThreadLocals with the local variables of the other call read
ThreadLocalsShared(ths, t) == ths[CHOOSE u \in Threads : u /= t].st

\* the local variables a call reads: its own
ThreadLocals(ths, t) == ths[t].st

\* a call that has not read a line yet
Entered(ls) ==
    [lines |-> Split(Join(ls, NL), NL), pos |-> 0, pc |-> "scan", st |-> InitLocals]

InitThreads ==
    /\ \E ls \in ListsOver(CallPool, MaxCallLines), other \in OtherInputs :
           threads = [t \in Threads |-> IF t = 1 THEN Entered(ls) ELSE Entered(other)]
    /\ pc = "threads"
    /\ language = "" /\ calls = <<>> /\ NoService
    /\ lines = <<>> /\ supported_languages = NoFilter /\ pos = 0
    /\ chunks = <<>> /\ current_file = None /\ current_hunks = <<>> /\ in_hunk = FALSE
    /\ hunk_old_start = 0 /\ hunk_new_start = 0

ThreadUnchanged ==
    UNCHANGED <<lines, supported_languages, pos, pc, chunks, current_file,
                current_hunks, hunk_old_start, hunk_new_start, in_hunk,
                language, calls, service>>

\* call t reads its next line
ThreadLine(t) ==
    /\ threads[t].pc = "scan" /\ threads[t].pos < Len(threads[t].lines)
    /\ threads' = [threads EXCEPT
                      ![t].st = Step(ThreadLocals(threads, t),
                                     threads[t].lines[threads[t].pos + 1], NoFilter),
                      ![t].pos = @ + 1]
    /\ ThreadUnchanged

\* call t leaves the loop, flushes and returns
ThreadEnd(t) ==
    /\ threads[t].pc = "scan" /\ threads[t].pos = Len(threads[t].lines)
    /\ threads' = [threads EXCEPT
                      ![t].st = FinalFlush(ThreadLocals(threads, t), NoFilter),
                      ![t].pc = "done"]
    /\ ThreadUnchanged

NextThreads == \E t \in Threads : ThreadLine(t) \/ ThreadEnd(t)

SpecThreads == InitThreads /\ [][NextThreads]_vars

Returned == pc = "done"

\* the scanner and the function agree on every prefix of the input
ScanAgrees ==
    /\ pc = "scan" => Locals = Scan(lines, pos, supported_languages)
    /\ Returned => chunks = ParseDiff(RawDiff, supported_languages)

(***************************************************************************)
(* Vocabulary of the properties: positions of the input and its sections.  *)
(***************************************************************************)
NLines == Len(lines)
Unfiltered == supported_languages = NoFilter

\* s without its i-th element, s without its elements i..j
RemoveAt(s, i) == SubSeq(s, 1, i - 1) \o SubSeq(s, i + 1, Len(s))
RemoveRange(s, i, j) == SubSeq(s, 1, i - 1) \o SubSeq(s, j + 1, Len(s))

\* the chunks of cs an allow-list lets through, in order
FilterBy(cs, langs) == SelectSeq(cs, LAMBDA c : Accepts(langs, c))

\* the elements of a set of positions in increasing order
RECURSIVE Ascending(_)
Ascending(S) ==
    IF S = {} THEN <<>>
    ELSE LET m == CHOOSE x \in S : \A y \in S : x <= y
         IN  <<m>> \o Ascending(S \ {m})

FileHeaderIdx == {i \in 1..NLines : IsFileHeader(lines[i])}
HunkHeaderIdx == {i \in 1..NLines : IsHunkHeader(lines[i])}
HeaderIdx == FileHeaderIdx \cup HunkHeaderIdx

\* the position of the file header that governs line i, 0 before the first one
FileHeaderOf(i) ==
    IF \E f \in FileHeaderIdx : f <= i
    THEN CHOOSE f \in FileHeaderIdx : f <= i /\ \A g \in FileHeaderIdx : g <= i => g <= f
    ELSE 0

\* the position of the first header after line i, NLines + 1 when there is none
NextIn(S, i) ==
    IF \E j \in S : j > i
    THEN CHOOSE j \in S : j > i /\ \A k \in S : k > i => j <= k
    ELSE NLines + 1

\* the text after the last " b/" of a file-header line, None without " b/":
\* found from the right end of the line
RECURSIVE NewSidePathFrom(_, _)
NewSidePathFrom(line, i) ==
    IF i < 1 THEN None
    ELSE IF Slice(line, i, i + 2) = <<" ","b","/">> THEN SubSeq(line, i + 3, Len(line))
    ELSE NewSidePathFrom(line, i - 1)
NewSidePath(line) == NewSidePathFrom(line, Len(line) - 2)

\* the first line of a chunk's content
FirstLine(content) == Split(content, NL)[1]

\* the number of lines of ls that begin with the marker character c
CountMarked(ls, c) == Len(SelectSeq(ls, LAMBDA l : StartsWith(l, <<c>>)))

IsBodyMarked(l) ==
    StartsWith(l, <<"+">>) \/ StartsWith(l, <<"-">>) \/ StartsWith(l, <<" ">>)

(***************************************************************************)
(* C1: single-file, single-hunk diffs                                      *)
(***************************************************************************)
\* line is "diff --git a/P b/P" for a non-empty path P
IsGitHeaderLine(line) ==
    LET P == NewSidePath(line)
    IN  /\ Truthy(P)
        /\ line = DiffGit \o <<" ","a","/">> \o P \o <<" ","b","/">> \o P

\* the input is one file header, metadata lines, one matching hunk header at
\* position h, then body lines that each begin with "+", "-" or " "
SingleHunkAt(h) ==
    /\ h \in 2..NLines
    /\ IsGitHeaderLine(lines[1])
    /\ \A i \in 2..(h - 1) : IsMetadata(lines[i])
    /\ IsHunkHeader(lines[h]) /\ HunkHeaderMatch(lines[h]).matched
    /\ \A i \in (h + 1)..NLines : IsBodyMarked(lines[i])

\* C1: a well-formed single-file, single-hunk diff parsed without a filter
\* gives exactly one chunk, whose added, removed and context lists are as long
\* as the number of body lines that begin with "+", "-" and " ".
C1_SingleHunkCounts ==
    (Returned /\ Unfiltered) =>
        \A h \in 1..NLines : SingleHunkAt(h) =>
            LET body == SubSeq(lines, h + 1, NLines)
            IN  /\ Len(chunks) = 1
                /\ Len(chunks[1].added_lines) = CountMarked(body, "+")
                /\ Len(chunks[1].removed_lines) = CountMarked(body, "-")
                /\ Len(chunks[1].context_lines) = CountMarked(body, " ")

(***************************************************************************)
(* C2: malformed hunk headers                                              *)
(***************************************************************************)
\* C2: a chunk built for a hunk whose header line begins with "@@" but does
\* not match the pattern has old_start = 0 and new_start = 0, and its three
\* lists are those of the lines of its content, wherever the header occurs.
C2_MalformedHeaderGivesZero ==
    (Returned /\ Unfiltered) =>
        \A k \in 1..Len(chunks) :
            LET c == chunks[k]
                h == FirstLine(c.content)
            IN  (IsHunkHeader(h) /\ ~HunkHeaderMatch(h).matched) =>
                    /\ c.old_start = 0
                    /\ c.new_start = 0
                    /\ c.added_lines = AddedOf(Split(c.content, NL))
                    /\ c.removed_lines = RemovedOf(Split(c.content, NL))
                    /\ c.context_lines = ContextOf(Split(c.content, NL))

(***************************************************************************)
(* C3: lines before the first file header, and between a file header and   *)
(* the first hunk header of the file                                       *)
(***************************************************************************)
\* the positions C3 calls ignored
IgnoredIdx ==
    {i \in 1..NLines :
        LET f == FileHeaderOf(i)
        IN  \/ f = 0
            \/ f < i /\ \A k \in (f + 1)..i : ~IsHunkHeader(lines[k])}

\* C3: deleting a line that precedes the first file header, or that lies
\* between a file header and the first hunk header of that file, does not
\* change the chunks parse_diff returns.
C3_IgnoredLinesDeletable ==
    Returned =>
        \A i \in IgnoredIdx :
            ParseDiff(Join(RemoveAt(lines, i), NL), supported_languages) = chunks

(***************************************************************************)
(* C4: file headers without the " b/" marker                               *)
(***************************************************************************)
\* C4: the lines from a file header without " b/" up to the next file header
\* are ignored: the chunks are those of the input without these lines.
C4_UnidentifiedSectionIgnored ==
    Returned =>
        \A f \in FileHeaderIdx :
            ExtractPath(lines[f]) = None =>
                ParseDiff(Join(RemoveRange(lines, f + 1, NextIn(FileHeaderIdx, f) - 1), NL),
                          supported_languages) = chunks

(***************************************************************************)
(* C5: the pending-hunk state after a file header                          *)
(***************************************************************************)
\* C5: right after the scanner has read a file-header line the buffer is
\* empty, the inside-hunk flag is false and both pending offsets are 0.
C5_FileHeaderResetsPending ==
    (pc = "scan" /\ pos >= 1 /\ IsFileHeader(lines[pos])) =>
        /\ current_hunks = <<>>
        /\ in_hunk = FALSE
        /\ hunk_old_start = 0
        /\ hunk_new_start = 0

(***************************************************************************)
(* C6: the language filter                                                 *)
(***************************************************************************)
\* C6: with an allow-list the scanner goes through the same states as without
\* one, except that its output holds only the chunks whose language is
\* allowed, in the same order: parse_diff(d, L) is parse_diff(d, None)
\* filtered by L.
C6_FilterIsSubsequence ==
    /\ pc = "scan" =>
           Locals = [Scan(lines, pos, NoFilter) EXCEPT
                        !.chunks = FilterBy(@, supported_languages)]
    /\ Returned =>
           chunks = FilterBy(ParseDiff(RawDiff, NoFilter), supported_languages)

\* a call with an allow-list that kept one chunk and dropped another
C6_Witness ==
    /\ Returned /\ supported_languages.given
    /\ chunks /= <<>>
    /\ Len(chunks) < Len(ParseDiff(RawDiff, NoFilter))

(***************************************************************************)
(* C7: N files with one hunk each                                          *)
(***************************************************************************)
\* the input is a sequence of file sections, each opened by a file header
\* with a non-empty new-side path and holding exactly one hunk header
OneHunkSections ==
    /\ NLines >= 1 /\ IsFileHeader(lines[1])
    /\ \A f \in FileHeaderIdx :
           /\ Truthy(NewSidePath(lines[f]))
           /\ Cardinality({h \in HunkHeaderIdx :
                              f < h /\ h < NextIn(FileHeaderIdx, f)}) = 1

\* C7: a diff of N file sections with one hunk each, parsed without a filter,
\* gives N chunks, the i-th with the path of the i-th file header.
C7_OneChunkPerFile ==
    (Returned /\ Unfiltered /\ OneHunkSections) =>
        LET files == Ascending(FileHeaderIdx)
        IN  /\ Len(chunks) = Len(files)
            /\ \A i \in 1..Len(files) :
                   chunks[i].file_path = NewSidePath(lines[files[i]])

\* a returned call on two one-hunk sections of different files
C7_Witness ==
    /\ Returned /\ Unfiltered /\ OneHunkSections
    /\ Len(chunks) = 2
    /\ chunks[1].file_path /= chunks[2].file_path

(***************************************************************************)
(* C8: the content of a chunk                                              *)
(***************************************************************************)
\* C8: the content of every emitted chunk is a hunk of the input verbatim:
\* a hunk-header line and every line after it up to the next hunk header,
\* file header or end of input, joined with newlines.
C8_ContentVerbatim ==
    (Returned /\ Unfiltered) =>
        \A k \in 1..Len(chunks) :
            \E h \in HunkHeaderIdx :
                chunks[k].content =
                    Join(SubSeq(lines, h, NextIn(HeaderIdx, h) - 1), NL)

(***************************************************************************)
(* C9: one chunk per hunk of an active file                                *)
(***************************************************************************)
\* the hunk headers read so far while a file path was active
ActiveHunkIdx ==
    {h \in HunkHeaderIdx :
        /\ h <= pos
        /\ FileHeaderOf(h) > 0
        /\ Truthy(ExtractPath(lines[FileHeaderOf(h)]))}

\* those of them whose hunk is over: a later header was read, or the input ended
ClosedHunkIdx ==
    {h \in ActiveHunkIdx : Returned \/ NextIn(HeaderIdx, h) <= pos}

\* C9: without a filter the emitted chunks are, one for one and in order, the
\* hunks of active files that the next header or the end of input has closed;
\* no other chunk is emitted.
C9_ChunkPerActiveHunk ==
    Unfiltered =>
        LET closed == Ascending(ClosedHunkIdx)
        IN  /\ Len(chunks) = Len(closed)
            /\ \A k \in 1..Len(closed) :
                   FirstLine(chunks[k].content) = lines[closed[k]]

(***************************************************************************)
(* C10: the range of the start offsets                                     *)
(***************************************************************************)
\* C10 as stated: every returned chunk has old_start >= 1 and new_start >= 1.
C10_OffsetsPositive ==
    Returned =>
        \A k \in 1..Len(chunks) :
            chunks[k].old_start >= 1 /\ chunks[k].new_start >= 1

\* C10 amended: every returned chunk has old_start >= 0 and new_start >= 0;
\* 0 is the value when the header states line 0 or no header has matched.
C10_OffsetsNonNegative ==
    Returned =>
        \A k \in 1..Len(chunks) :
            chunks[k].old_start >= 0 /\ chunks[k].new_start >= 0

\* a returned chunk of a malformed header with both offsets 0, and another
\* whose header states a positive line
C10_Witness ==
    /\ Returned
    /\ \E k \in 1..Len(chunks) :
           /\ ~HunkHeaderMatch(FirstLine(chunks[k].content)).matched
           /\ chunks[k].old_start = 0 /\ chunks[k].new_start = 0
    /\ \E k \in 1..Len(chunks) :
           /\ HunkHeaderMatch(FirstLine(chunks[k].content)).matched
           /\ chunks[k].new_start >= 1

(***************************************************************************)
(* C12: "index ", "--- " and "+++ " lines                                  *)
(***************************************************************************)
\* the line begins with "index ", "--- " or "+++ "
MetaPrefixed(l) ==
    \/ Slice(l, 1, 6) = <<"i","n","d","e","x"," ">>
    \/ Slice(l, 1, 4) = <<"-","-","-"," ">>
    \/ Slice(l, 1, 4) = <<"+","+","+"," ">>

RECURSIVE IsSubseq(_, _)
IsSubseq(a, b) ==
    IF a = <<>> THEN TRUE
    ELSE IF b = <<>> THEN FALSE
    ELSE IF Head(a) = Head(b) THEN IsSubseq(Tail(a), Tail(b))
    ELSE IsSubseq(a, Tail(b))

\* the hunk-header lines of the input, in input order
HunkHeaderLines ==
    LET hs == Ascending(HunkHeaderIdx) IN [k \in 1..Len(hs) |-> lines[hs[k]]]

\* C13: the returned chunks are in input order: their header lines (the first
\* lines of their contents) are hunk-header lines at increasing positions of
\* the input.
C13_OutputInInputOrder ==
    Returned =>
        IsSubseq([k \in 1..Len(chunks) |-> FirstLine(chunks[k].content)],
                 HunkHeaderLines)

\* a returned call with three chunks whose headers are not all the same
C13_Witness ==
    /\ Returned /\ Len(chunks) = 3
    /\ FirstLine(chunks[1].content) /= FirstLine(chunks[2].content)

(***************************************************************************)
(* C14: the offsets of a chunk with a well-formed header                   *)
(***************************************************************************)
\* C14: a chunk whose header line (the first line of its content) matches
\* "@@ -a[,b] +c[,d] @@" has old_start = a and new_start = c.
C14_OffsetsFromOwnHeader ==
    Returned =>
        \A k \in 1..Len(chunks) :
            LET m == HunkHeaderMatch(FirstLine(chunks[k].content))
            IN  m.matched =>
                    chunks[k].old_start = m.old /\ chunks[k].new_start = m.new

Seeking == ~Truthy(current_file)
HasFile == Truthy(current_file) /\ ~in_hunk /\ current_hunks = <<>>
InHunk == Truthy(current_file) /\ in_hunk /\ current_hunks /= <<>>

\* C16: under this mapping a file header with a path leads to HasFile from
\* any state; a hunk header leads to InHunk, and only from HasFile or InHunk;
\* any other line keeps the state and changes the buffer only in InHunk; in
\* Seeking no hunk-header or body line changes the flag or the buffer.
C16_RefinesThreeStates ==
    [][ /\ (FileHeaderLine /\ Truthy(ExtractPath(NextLine))) => HasFile'
        /\ (HunkHeaderLine /\ (HasFile \/ InHunk)) => InHunk'
        /\ (HunkHeaderLine /\ InHunk') => (HasFile \/ InHunk)
        /\ (MetadataLine \/ BodyLine \/ IgnoredLine) =>
               /\ Seeking' = Seeking /\ HasFile' = HasFile /\ InHunk' = InHunk
               /\ current_hunks' /= current_hunks => InHunk
        /\ (Seeking /\ (HunkHeaderLine \/ BodyLine \/ IgnoredLine)) =>
               UNCHANGED <<in_hunk, current_hunks>>
      ]_vars

(***************************************************************************)
(* C17: inputs without a hunk header                                       *)
(***************************************************************************)
\* C17: an input with no hunk-header line, the empty string among them, gives
\* the empty chunk sequence, with or without an allow-list.
C17_NoHunkNoChunk ==
    (Returned /\ HunkHeaderIdx = {}) => chunks = <<>>

\* a returned call on the empty string
C17_Witness == Returned /\ RawDiff = <<>> /\ lines = << <<>> >>

(***************************************************************************)
(* C11: the three line lists of a chunk                                    *)
(***************************************************************************)
\* the list a raw line belongs to
MarkOf(l) ==
    IF Slice(l, 1, 1) = <<"+">> /\ Slice(l, 1, 3) /= <<"+","+","+">> THEN "added"
    ELSE IF Slice(l, 1, 1) = <<"-">> /\ Slice(l, 1, 3) /= <<"-","-","-">> THEN "removed"
    ELSE IF Slice(l, 1, 1) = <<" ">> THEN "context"
    ELSE "none"

\* the buffer read once, front to back, each line put in the one list of its
\* mark without its first character
RECURSIVE Partitioned(_)
Partitioned(buf) ==
    IF buf = <<>> THEN [added |-> <<>>, removed |-> <<>>, context |-> <<>>]
    ELSE LET before == Partitioned(SubSeq(buf, 1, Len(buf) - 1))
             l == buf[Len(buf)]
             rest == SubSeq(l, 2, Len(l))
         IN  [added |-> IF MarkOf(l) = "added"
                        THEN Append(before.added, rest) ELSE before.added,
              removed |-> IF MarkOf(l) = "removed"
                          THEN Append(before.removed, rest) ELSE before.removed,
              context |-> IF MarkOf(l) = "context"
                          THEN Append(before.context, rest) ELSE before.context]

\* C11: in a chunk built from a buffer, a line beginning with "+" (not "+++")
\* is in added_lines only, one beginning with "-" (not "---") in
\* removed_lines only, one beginning with a space in context_lines only, each
\* without its first character and in buffer order; other lines are in none.
C11_ListsPartitionBuffer ==
    (pc = "built" /\ chunks /= <<>>) =>
        /\ chunks[1].added_lines = Partitioned(current_hunks).added
        /\ chunks[1].removed_lines = Partitioned(current_hunks).removed
        /\ chunks[1].context_lines = Partitioned(current_hunks).context
        /\ chunks[1].content = Join(current_hunks, NL)

\* a chunk built from a buffer with an added line, a removed line and a line
\* beginning with "+++"
C11_Witness ==
    /\ pc = "built" /\ chunks /= <<>>
    /\ chunks[1].added_lines /= <<>> /\ chunks[1].removed_lines /= <<>>
    /\ \E i \in 1..Len(current_hunks) : Slice(current_hunks[i], 1, 3) = <<"+","+","+">>

(***************************************************************************)
(* C20: detect_language                                                    *)
(***************************************************************************)
\* the table of the claim: extension, tag
TagTable ==
    << <<<<".","p","y">>, "python">>,
       <<<<".","j","s">>, "javascript">>, <<<<".","j","s","x">>, "javascript">>,
       <<<<".","t","s">>, "typescript">>, <<<<".","t","s","x">>, "typescript">>,
       <<<<".","j","a","v","a">>, "java">>, <<<<".","g","o">>, "go">>,
       <<<<".","r","s">>, "rust">>, <<<<".","r","b">>, "ruby">>,
       <<<<".","c","p","p">>, "cpp">>, <<<<".","c">>, "c">>,
       <<<<".","c","s">>, "csharp">> >>

\* two characters that differ at most in case
SameLetter(c, d) ==
    c = d \/ \E i \in 1..26 : {c, d} = {Upper[i], Lower[i]}
SameIgnoringCase(a, b) ==
    Len(a) = Len(b) /\ \A i \in 1..Len(a) : SameLetter(a[i], b[i])

\* the file name of a path: what follows the last slash, once the slashes and
\* "." components that end the path are taken off
RECURSIVE FileNameOf(_)
FileNameOf(p) ==
    IF p = <<>> THEN <<>>
    ELSE IF p[Len(p)] = "/" THEN FileNameOf(SubSeq(p, 1, Len(p) - 1))
    ELSE IF p = <<".">> THEN <<>>
    ELSE IF Len(p) >= 2 /\ SubSeq(p, Len(p) - 1, Len(p)) = <<"/",".">>
         THEN FileNameOf(SubSeq(p, 1, Len(p) - 2))
    ELSE SubSeq(p, LastIndex(p, "/") + 1, Len(p))

\* the file name ends with the extension ext, which is not all of the name
HasFinalExtension(p, ext) ==
    LET name == FileNameOf(p)
    IN  /\ Len(name) > Len(ext)
        /\ SameIgnoringCase(SubSeq(name, Len(name) - Len(ext) + 1, Len(name)), ext)

\* C20: detect_language returns the table tag of the final extension of the
\* path, compared without regard to case, and "unknown" for every other path.
C20_DetectLanguageTable ==
    pc = "detected" =>
        /\ \A i \in 1..Len(TagTable) :
               HasFinalExtension(current_file, TagTable[i][1]) =>
                   language = TagTable[i][2]
        /\ (\A i \in 1..Len(TagTable) : ~HasFinalExtension(current_file, TagTable[i][1]))
               => language = "unknown"

\* a call that returned "python" for a path whose extension is in upper case
C20_Witness ==
    /\ pc = "detected" /\ language = "python"
    /\ HasFinalExtension(current_file, <<".","p","y">>)
    /\ PathSuffix(current_file) /= ToLower(PathSuffix(current_file))

(***************************************************************************)
(* C18: repeated calls                                                     *)
(***************************************************************************)
\* C18: a call returns what every earlier call with the same input text and
\* allow-list returned, whatever calls were made before or between them.
C18_SameCallSameResult ==
    Returned =>
        \A k \in 1..Len(calls) :
            (calls[k].raw_diff = RawDiff /\ calls[k].langs = supported_languages)
                => calls[k].result = chunks

\* the third call has returned some chunks; the call between it and the first
\* had another input and returned other chunks
C18_Witness ==
    /\ Returned /\ Len(calls) = 2 /\ chunks /= <<>>
    /\ calls[1].raw_diff = RawDiff /\ calls[1].langs = supported_languages
    /\ calls[2].raw_diff /= RawDiff /\ calls[2].result /= <<>>
    /\ calls[2].result /= chunks

(***************************************************************************)
(* C19: simultaneous calls                                                 *)
(***************************************************************************)
AllThreadsDone == pc = "threads" /\ \A t \in Threads : threads[t].pc = "done"

\* C19: under every interleaving of the steps of two calls, each call
\* returns the chunks it returns when it runs alone.
C19_ThreadsDoNotInterfere ==
    \A t \in Threads :
        (pc = "threads" /\ threads[t].pc = "done") =>
            threads[t].st.chunks = ParseDiff(Join(threads[t].lines, NL), NoFilter)

\* both calls have returned, with different chunks
C19_Witness ==
    /\ AllThreadsDone
    /\ threads[1].st.chunks /= <<>> /\ threads[2].st.chunks /= <<>>
    /\ threads[1].st.chunks /= threads[2].st.chunks

(***************************************************************************)
(* C21: the file path of a chunk                                           *)
(***************************************************************************)
\* the positions of the hunk headers equal to the first line of a content
HeadersOf(content) == {h \in HunkHeaderIdx : lines[h] = FirstLine(content)}

\* C21: after a file header with " b/" the active path is the text after the
\* last " b/"; a chunk built for a hunk (one whose header line occurs once in
\* the input) that lies in the section of such a file header carries that
\* path, and no chunk carries an empty or absent path.
C21_PathOfSection ==
    /\ (pc = "scan" /\ pos >= 1 /\ IsFileHeader(lines[pos])
            /\ NewSidePath(lines[pos]) /= None)
           => current_file = NewSidePath(lines[pos])
    /\ Returned =>
           \A k \in 1..Len(chunks) :
               /\ Truthy(chunks[k].file_path)
               /\ \A h \in HeadersOf(chunks[k].content) :
                      LET f == FileHeaderOf(h)
                      IN  (/\ Cardinality(HeadersOf(chunks[k].content)) = 1
                           /\ f > 0
                           /\ NewSidePath(lines[f]) /= None)
                              => chunks[k].file_path = NewSidePath(lines[f])

(***************************************************************************)
(* C22: the language of a chunk                                            *)
(***************************************************************************)
\* C22: every returned chunk has language = detect_language(file_path), and
\* a chunk with language "unknown" is returned only without an allow-list or
\* with one that contains "unknown".
C22_LanguageOfPath ==
    Returned =>
        \A k \in 1..Len(chunks) :
            /\ chunks[k].language = detect_language(chunks[k].file_path)
            /\ chunks[k].language = "unknown" =>
                   \/ ~supported_languages.given
                   \/ \E i \in 1..Len(supported_languages.langs) :
                          supported_languages.langs[i] = "unknown"

\* a call with the allow-list ["unknown"] has returned a chunk of a file
\* without an extension and has dropped a hunk of a Python file
C22_Witness ==
    /\ Returned /\ supported_languages = Only(<<"unknown">>)
    /\ Len(chunks) = 1 /\ chunks[1].language = "unknown"
    /\ \E i \in 1..NLines : lines[i] = FilePy
    /\ Cardinality(HunkHeaderIdx) = 2

(***************************************************************************)
(* C28: parsing a concatenation                                            *)
(***************************************************************************)
\* C28: when the input is A followed by B and B begins with a file header,
\* parse_diff returns parse_diff(A) followed by parse_diff(B), under the
\* same allow-list.
C28_SplitsAtFileHeader ==
    Returned =>
        \A i \in FileHeaderIdx :
            i >= 2 =>
                chunks = ParseDiff(Join(SubSeq(lines, 1, i - 1), NL), supported_languages)
                         \o ParseDiff(Join(SubSeq(lines, i, NLines), NL), supported_languages)

(***************************************************************************)
(* C30: the output list during the scan                                    *)
(***************************************************************************)
IsPrefix(a, b) == Len(a) <= Len(b) /\ SubSeq(b, 1, Len(a)) = a

\* C30: every step of the scan (a line read, or the flush at the end of the
\* input) leaves the chunks emitted so far as they are, in place, and at most
\* appends to them.
C30_OutputOnlyGrows == [][IsPrefix(chunks, chunks')]_vars

\* three chunks have been emitted, the last one by the flush after the loop
C30_Witness == Returned /\ Len(chunks) = 3 /\ chunks[1] /= chunks[2]

(***************************************************************************)
(* The review database (src/src/db.py): the table "reviews" is a set of    *)
(* rows, each with the id SQLite gave it.  A score is kept in tenths.      *)
(* The columns timestamp, pr_url, critical and warnings are stored and     *)
(* returned like the others and are left out.                              *)
(***************************************************************************)
\* a row without its id, and the arguments of save_review with an id
Fields(row) ==
    [repo |-> row.repo, pr_number |-> row.pr_number, commit_sha |-> row.commit_sha,
     score |-> row.score, total_issues |-> row.total_issues]
WithId(args, id) ==
    [id |-> id, repo |-> args.repo, pr_number |-> args.pr_number,
     commit_sha |-> args.commit_sha, score |-> args.score,
     total_issues |-> args.total_issues]

\* INTEGER PRIMARY KEY AUTOINCREMENT: one more than the largest id (no row is
\* ever deleted)
NextId(table) ==
    IF table = {} THEN 1
    ELSE 1 + (CHOOSE m \in {r.id : r \in table} : \A r \in table : r.id <= m)

\* INSERT INTO reviews ... VALUES ...
save_review(table, args) == table \cup {WithId(args, NextId(table))}

\* ORDER BY id ASC
RECURSIVE OrderByIdAsc(_)
OrderByIdAsc(table) ==
    IF table = {} THEN <<>>
    ELSE LET first == CHOOSE r \in table : \A q \in table : q.id >= r.id
         IN  <<first>> \o OrderByIdAsc(table \ {first})

\* ORDER BY id DESC
RECURSIVE OrderByIdDesc(_)
OrderByIdDesc(table) ==
    IF table = {} THEN <<>>
    ELSE LET first == CHOOSE r \in table : \A q \in table : q.id <= r.id
         IN  <<first>> \o OrderByIdDesc(table \ {first})

\* LIMIT n: a negative n is no limit
Limit(rows, n) ==
    IF n < 0 \/ n >= Len(rows) THEN rows ELSE SubSeq(rows, 1, n)

\* get_recent_reviews with ORDER BY id ASC
get_recent_reviews_asc(table, limit) == Limit(OrderByIdAsc(table), limit)

\* SELECT * FROM reviews ORDER BY id DESC LIMIT ?
get_recent_reviews(table, limit) == Limit(OrderByIdDesc(table), limit)

\* has_reviewed_commit without the test of the empty sha
has_reviewed_commit_any_sha(table, repo, pr_number, commit_sha) ==
    \E r \in table :
        r.repo = repo /\ r.pr_number = pr_number /\ r.commit_sha = commit_sha

\* has_reviewed_commit
has_reviewed_commit(table, repo, pr_number, commit_sha) ==
    IF commit_sha = "" THEN FALSE
    ELSE \E r \in table :
             r.repo = repo /\ r.pr_number = pr_number /\ r.commit_sha = commit_sha

\* SUM(column) and AVG(score) over all rows: NULL over no row
RECURSIVE SqlSum(_, _)
SqlSum(table, column) ==
    IF table = {} THEN 0
    ELSE LET r == CHOOSE r \in table : TRUE
         IN  column[r] + SqlSum(table \ {r}, column)
IssuesOf(table) == [r \in table |-> r.total_issues]
ScoreOf(table) == [r \in table |-> r.score]

\* ROUND(AVG(score), 1) for scores in tenths: the nearest whole tenth, a half
\* rounded up
RoundAvg(table) ==
    (2 * SqlSum(table, ScoreOf(table)) + Cardinality(table)) \div (2 * Cardinality(table))

\* get_stats with SUM(DISTINCT total_issues)
get_stats_distinct(table) ==
    [total_reviews |-> Cardinality(table),
     total_issues |->
        IF table = {} THEN 0
        ELSE LET vals == {r.total_issues : r \in table}
             IN  SqlSum(vals, [v \in vals |-> v]),
     avg_score |-> IF table = {} THEN 0 ELSE RoundAvg(table)]

\* get_stats: COUNT(*), COALESCE(SUM(total_issues), 0),
\* COALESCE(ROUND(AVG(score), 1), 0)
get_stats(table) ==
    [total_reviews |-> Cardinality(table),
     total_issues |-> IF table = {} THEN 0 ELSE SqlSum(table, IssuesOf(table)),
     avg_score |-> IF table = {} THEN 0 ELSE RoundAvg(table)]

\* the arguments the rows are saved with
ArgPool ==
    { [repo |-> "owner/repo", pr_number |-> 1, commit_sha |-> "abc123",
       score |-> 90, total_issues |-> 0],
      [repo |-> "owner/repo", pr_number |-> 1, commit_sha |-> "def456",
       score |-> 85, total_issues |-> 2],
      [repo |-> "other/repo", pr_number |-> 1, commit_sha |-> "abc123",
       score |-> 60, total_issues |-> 2],
      [repo |-> "owner/repo", pr_number |-> 2, commit_sha |-> "abc123",
       score |-> 90, total_issues |-> 1],
      [repo |-> "owner/repo", pr_number |-> 1, commit_sha |-> "",
       score |-> 85, total_issues |-> 2] }
Repos == {a.repo : a \in ArgPool}
PrNumbers == {a.pr_number : a \in ArgPool}
Shas == {a.commit_sha : a \in ArgPool}

\* a fresh database, as made by _make_db of the tests
InitDb ==
    /\ reviews = {} /\ saved = <<>> /\ answer = NoAnswer
    /\ settings = [configured |-> FALSE]
    /\ handlers = <<>> /\ review_timestamps = <<>> /\ github = <<>> /\ now = 0
    /\ pc = "db"
    /\ language = "" /\ calls = <<>> /\ threads = <<>>
    /\ lines = <<>> /\ supported_languages = NoFilter /\ pos = 0
    /\ chunks = <<>> /\ current_file = None /\ current_hunks = <<>> /\ in_hunk = FALSE
    /\ hunk_old_start = 0 /\ hunk_new_start = 0

DbUnchanged ==
    UNCHANGED <<lines, supported_languages, pos, pc, chunks, current_file,
                current_hunks, hunk_old_start, hunk_new_start, in_hunk,
                language, calls, threads,
                settings, handlers, review_timestamps, github, now>>

\* db.save_review(...)
SaveReview ==
    /\ pc = "db" /\ Len(saved) < MaxRows
    /\ \E args \in ArgPool :
           /\ reviews' = save_review(reviews, args)
           /\ saved' = Append(saved, args)
    /\ answer' = NoAnswer
    /\ DbUnchanged

\* db.get_recent_reviews(limit)
GetRecentReviews ==
    /\ pc = "db"
    /\ \E limit \in 0..(MaxRows + 1) :
           answer' = [op |-> "get_recent_reviews", limit |-> limit,
                      rows |-> get_recent_reviews(reviews, limit)]
    /\ UNCHANGED <<reviews, saved>>
    /\ DbUnchanged

\* db.has_reviewed_commit(repo, pr_number, commit_sha)
HasReviewedCommit ==
    /\ pc = "db"
    /\ \E repo \in Repos, pr_number \in PrNumbers, commit_sha \in Shas :
           answer' = [op |-> "has_reviewed_commit", repo |-> repo,
                      pr_number |-> pr_number, commit_sha |-> commit_sha,
                      found |-> has_reviewed_commit(reviews, repo, pr_number, commit_sha)]
    /\ UNCHANGED <<reviews, saved>>
    /\ DbUnchanged

\* db.get_stats()
GetStats ==
    /\ pc = "db"
    /\ answer' = [op |-> "get_stats", stats |-> get_stats(reviews)]
    /\ UNCHANGED <<reviews, saved>>
    /\ DbUnchanged

NextDb == SaveReview \/ GetRecentReviews \/ HasReviewedCommit \/ GetStats

SpecDb == InitDb /\ [][NextDb]_vars

(***************************************************************************)
(* C26: get_recent_reviews                                                 *)
(***************************************************************************)
Min(a, b) == IF a <= b THEN a ELSE b

\* C26: after n saves, get_recent_reviews(limit) returns min(limit, n) rows:
\* the k-th of them has the fields of the k-th last save.
C26_RecentReviewsNewestFirst ==
    answer.op = "get_recent_reviews" =>
        LET n == Len(saved)
        IN  /\ Len(answer.rows) = Min(answer.limit, n)
            /\ \A k \in 1..Len(answer.rows) :
                   Fields(answer.rows[k]) = saved[n + 1 - k]

\* three rows were saved, the last two differ, and a query with limit 2 was answered
C26_Witness ==
    /\ answer.op = "get_recent_reviews" /\ answer.limit = 2
    /\ Len(saved) = 3 /\ saved[2] /= saved[3]
    /\ Len(answer.rows) = 2

(***************************************************************************)
(* C27: get_stats                                                          *)
(***************************************************************************)
\* the sum of the total_issues of a sequence of saves
RECURSIVE IssuesSaved(_)
IssuesSaved(s) == IF s = <<>> THEN 0 ELSE s[1].total_issues + IssuesSaved(Tail(s))

\* C27: get_stats reports as total_reviews the number of saves and as
\* total_issues the sum of their total_issues; on an empty database all
\* three values are 0.
C27_StatsCountAndSum ==
    answer.op = "get_stats" =>
        /\ answer.stats.total_reviews = Len(saved)
        /\ answer.stats.total_issues = IssuesSaved(saved)
        /\ saved = <<>> => answer.stats.avg_score = 0

\* three rows with the same number of issues were saved, then the statistics read
C27_Witness ==
    /\ answer.op = "get_stats" /\ Len(saved) = 3
    /\ saved[1].total_issues = 2 /\ saved[2].total_issues = 2
    /\ answer.stats.total_issues > 4

(***************************************************************************)
(* The webhook server (src/src/app.py) and the GitHub Action entry point   *)
(* (src/src/review_action.py).  A call of handle_webhook runs from the     *)
(* request to its first await that leaves the process (the fetch of the    *)
(* diff), from there to the next one (the post), and from there to its     *)
(* return; calls overlap at these two points.                              *)
(***************************************************************************)
MAX_REVIEWS_PER_MINUTE == 10
\* deque(maxlen=10)
TimestampsMaxLen == 10
\* "now - _review_timestamps[0] > 60"
RateWindow == 60

\* "owner/repo", and a full_name without "/"
OwnerRepo == <<"o","w","n","e","r","/","r","e","p","o">>
NoSlashName == <<"o","w","n","e","r">>

\* the X-Hub-Signature-256 header GitHub computes for a delivery: "sha256="
\* and the hex digest of the HMAC of the body (one digest stands for all)
GoodSignature == <<"s","h","a","2","5","6","=","0","f">>
\* a digest of another body or secret, and a header value with the byte 0xE9,
\* which request.headers decodes to a character outside ASCII
WrongSignature == <<"s","h","a","2","5","6","=","0","0">>
NonAsciiSignature == <<"s","h","a","2","5","6","=","0xE9">>
\* no header: request.headers.get("X-Hub-Signature-256", "")
NoSignature == <<>>

Delivery(signature, event, action, full_name, pr_number, commit_sha) ==
    [signature |-> signature, event |-> event, action |-> action,
     full_name |-> full_name, pr_number |-> pr_number, commit_sha |-> commit_sha]

\* the deliveries: a pull request at a commit, a pull request whose payload
\* has no head sha, a wrong signature, a signature outside ASCII, another
\* event, another action, a repository name without "/"
RequestPool ==
    { Delivery(GoodSignature, "pull_request", "opened", OwnerRepo, 1, "abc123"),
      Delivery(GoodSignature, "pull_request", "synchronize", OwnerRepo, 2, ""),
      Delivery(WrongSignature, "pull_request", "opened", OwnerRepo, 1, "abc123"),
      Delivery(NonAsciiSignature, "pull_request", "opened", OwnerRepo, 1, "abc123"),
      Delivery(GoodSignature, "push", "", OwnerRepo, 1, "abc123"),
      Delivery(GoodSignature, "pull_request", "closed", OwnerRepo, 1, "abc123"),
      Delivery(GoodSignature, "pull_request", "reopened", NoSlashName, 1, "abc123") }
NoRequest == Delivery(NoSignature, "", "", <<>>, 0, "")

\* the event payloads of the runs of the GitHub Action
EventPool ==
    { Delivery(NoSignature, "pull_request", "opened", OwnerRepo, pr_number, "") :
          pr_number \in {1, 3} }

\* what get_pr_diff answers with: pull request 1 changes a Python file in
\* three hunks (four lines of diff), pull request 2 a JavaScript file, and
\* pull request 3 changes nothing
DiffOf(pr_number) ==
    CASE pr_number = 1 -> Join(<<FilePy, HunkA, HunkB, HunkA>>, NL)
      [] pr_number = 2 -> Join(<<FileJs, HunkA>>, NL)
      [] OTHER -> <<>>

\* len(raw_diff.split("\n"))
LineCount(text) == Len(Split(text, NL))

\* what review_pr returns: no issue (score 10.0), or one critical issue
\* (score 10.0 - 2.0 - 0.1); scores in tenths.  The reviewer of the model
\* finds the issue in the reviews of two chunks or more.
CleanReview == [total_issues |-> 0, critical_count |-> 0, overall_score |-> 100]
CriticalReview == [total_issues |-> 1, critical_count |-> 1, overall_score |-> 79]
ReviewOf(cs) == IF Len(cs) < 2 THEN CleanReview ELSE CriticalReview

\* s[:n]
PySliceTo(s, n) ==
    IF n >= 0 THEN SubSeq(s, 1, IF n < Len(s) THEN n ELSE Len(s))
    ELSE SubSeq(s, 1, IF Len(s) + n > 0 THEN Len(s) + n ELSE 0)

\* a call of handle_webhook (mode "webhook") or of main (mode "action") that
\* waits for the diff or for the post; Free is a call that is over or has not
\* begun
Free ==
    [pc |-> "idle", mode |-> "webhook", req |-> NoRequest,
     raw_diff |-> <<>>, parsed |-> 0, chunks |-> <<>>, review |-> CleanReview]
Fetching(mode, req) ==
    [pc |-> "fetching", mode |-> mode, req |-> req,
     raw_diff |-> <<>>, parsed |-> 0, chunks |-> <<>>, review |-> CleanReview]
Posting(mode, req, raw_diff, parsed, cs) ==
    [pc |-> "posting", mode |-> mode, req |-> req,
     raw_diff |-> raw_diff, parsed |-> Len(parsed), chunks |-> cs,
     review |-> ReviewOf(cs)]

\* what a call that is over answered: the status of the response (or the
\* HTTP error) and the delivery it was for
Response(mode, req, status) == [op |-> mode, req |-> req, status |-> status]

Handlers == {1, 2}

\* REVIEW_LANGUAGES of the server of the model
ServerLanguages == Only(<<"python">>)

\* the server after lifespan has started it on the database file of an
\* earlier run, which holds the row of a review of pull request 2 saved
\* without a commit sha
LegacyArgs ==
    [repo |-> OwnerRepo, pr_number |-> 2, commit_sha |-> "",
     score |-> 100, total_issues |-> 0]
InitWebhook ==
    /\ reviews = save_review({}, LegacyArgs) /\ saved = <<LegacyArgs>>
    /\ answer = NoAnswer
    /\ settings = [configured |-> TRUE, github_webhook_secret |-> TRUE,
                   max_files_per_review |-> 2, max_diff_lines |-> 2,
                   supported_languages |-> ServerLanguages]
    /\ handlers = [h \in Handlers |-> Free]
    /\ review_timestamps = <<>> /\ github = <<>> /\ now = 0
    /\ pc = "serve"
    /\ language = "" /\ calls = <<>> /\ threads = <<>>
    /\ lines = <<>> /\ supported_languages = NoFilter /\ pos = 0
    /\ chunks = <<>> /\ current_file = None /\ current_hunks = <<>> /\ in_hunk = FALSE
    /\ hunk_old_start = 0 /\ hunk_new_start = 0

ParserUnchanged ==
    UNCHANGED <<lines, supported_languages, pos, pc, chunks, current_file,
                current_hunks, hunk_old_start, hunk_new_start, in_hunk,
                language, calls, threads, settings>>

\* hmac.compare_digest(a, b) on str raises TypeError unless both are ASCII
IsAscii(text) == \A i \in 1..Len(text) : text[i] /= "0xE9"
CompareDigestRaises(a, b) == ~IsAscii(a) \/ ~IsAscii(b)
\* verify_signature(body, signature, secret): raises, or tells whether the
\* header is "sha256=" and the hex digest
VerifyRaises(signature) == CompareDigestRaises(GoodSignature, signature)
verify_signature(signature) == GoodSignature = signature
\* the signature test of the handler, made when a secret is configured
SignatureRaises(req) ==
    settings.github_webhook_secret /\ VerifyRaises(req.signature)
SignatureOk(req) ==
    \/ ~settings.github_webhook_secret
    \/ ~VerifyRaises(req.signature) /\ verify_signature(req.signature)
\* the event and action tests
Reviewable(req) ==
    req.event = "pull_request" /\ req.action \in {"opened", "synchronize", "reopened"}

\* the loop of _is_rate_limited
RECURSIVE PurgeOld(_, _)
PurgeOld(ts, t) ==
    IF ts /= <<>> /\ t - ts[1] > RateWindow THEN PurgeOld(Tail(ts), t) ELSE ts
\* _is_rate_limited with ">" for ">="
IsRateLimitedOffByOne(ts, t) == Len(PurgeOld(ts, t)) > MAX_REVIEWS_PER_MINUTE
\* the value _is_rate_limited returns
IsRateLimited(ts, t) == Len(PurgeOld(ts, t)) >= MAX_REVIEWS_PER_MINUTE
\* _review_timestamps.append on a deque with maxlen
DequeAppend(ts, x) ==
    LET a == Append(ts, x) IN IF Len(a) > TimestampsMaxLen THEN Tail(a) ELSE a
\* _review_timestamps after the gate has let a delivery through
Stamped == DequeAppend(PurgeOld(review_timestamps, now), now)

HasSlash(full_name) == FindFrom(full_name, <<"/">>, 1) /= 0

\* the tests a delivery passes before the dedup test
ReachesDedup(req) ==
    /\ SignatureOk(req) /\ Reviewable(req)
    /\ ~IsRateLimited(review_timestamps, now)
    /\ HasSlash(req.full_name)

\* review_db.has_reviewed_commit(full_name, pr_number, commit_sha)
SeenBefore(req) ==
    has_reviewed_commit(reviews, req.full_name, req.pr_number, req.commit_sha)

\* the call in slot h is over
Finish(h, status) ==
    /\ answer' = Response(handlers[h].mode, handlers[h].req, status)
    /\ handlers' = [handlers EXCEPT ![h] = Free]
\* a delivery is answered at once
Reject(req, status) ==
    /\ answer' = Response("webhook", req, status)
    /\ UNCHANGED handlers
\* a call goes on to the fetch of the diff
Accept(h, mode, req) ==
    /\ handlers' = [handlers EXCEPT ![h] = Fetching(mode, req)]
    /\ UNCHANGED answer

\* the slot a new call takes: the first free one
FreeSlot(h) == handlers[h].pc = "idle" /\ \A g \in Handlers : g < h => handlers[g].pc /= "idle"

\* verify_signature raises, outside the try block: HTTP 500
SignatureFails(h, req) ==
    /\ pc = "serve" /\ FreeSlot(h)
    /\ SignatureRaises(req)
    /\ Reject(req, "error")
    /\ UNCHANGED <<reviews, saved, review_timestamps, github, now>>
    /\ ParserUnchanged

\* HTTP 401
Unauthorized(h, req) ==
    /\ pc = "serve" /\ FreeSlot(h)
    /\ ~SignatureOk(req) /\ ~SignatureRaises(req)
    /\ Reject(req, "unauthorized")
    /\ UNCHANGED <<reviews, saved, review_timestamps, github, now>>
    /\ ParserUnchanged

\* "ignored": another event or action
Ignored(h, req) ==
    /\ pc = "serve" /\ FreeSlot(h)
    /\ SignatureOk(req) /\ ~Reviewable(req)
    /\ Reject(req, "ignored")
    /\ UNCHANGED <<reviews, saved, review_timestamps, github, now>>
    /\ ParserUnchanged

\* "rate_limited"
RateLimited(h, req) ==
    /\ pc = "serve" /\ FreeSlot(h)
    /\ SignatureOk(req) /\ Reviewable(req)
    /\ IsRateLimited(review_timestamps, now)
    /\ Reject(req, "rate_limited")
    /\ review_timestamps' = PurgeOld(review_timestamps, now)
    /\ UNCHANGED <<reviews, saved, github, now>>
    /\ ParserUnchanged

\* HTTP 400: a repository name without "/"
BadRequest(h, req) ==
    /\ pc = "serve" /\ FreeSlot(h)
    /\ SignatureOk(req) /\ Reviewable(req)
    /\ ~IsRateLimited(review_timestamps, now)
    /\ ~HasSlash(req.full_name)
    /\ Reject(req, "bad_request")
    /\ review_timestamps' = Stamped
    /\ UNCHANGED <<reviews, saved, github, now>>
    /\ ParserUnchanged

\* "already_reviewed"
AlreadyReviewed(h, req) ==
    /\ pc = "serve" /\ FreeSlot(h)
    /\ ReachesDedup(req)
    /\ SeenBefore(req)
    /\ Reject(req, "already_reviewed")
    /\ review_timestamps' = Stamped
    /\ UNCHANGED <<reviews, saved, github, now>>
    /\ ParserUnchanged

\* the delivery passes every test: await github_client.get_pr_diff(...)
StartReview(h, req) ==
    /\ pc = "serve" /\ FreeSlot(h)
    /\ ReachesDedup(req)
    /\ ~SeenBefore(req)
    /\ Accept(h, "webhook", req)
    /\ review_timestamps' = Stamped
    /\ UNCHANGED <<reviews, saved, github, now>>
    /\ ParserUnchanged

\* handle_webhook from the request to its answer or to its first await
Deliver(h, req) ==
    \/ SignatureFails(h, req) \/ Unauthorized(h, req) \/ Ignored(h, req) \/ RateLimited(h, req)
    \/ BadRequest(h, req) \/ AlreadyReviewed(h, req) \/ StartReview(h, req)

\* main of review_action.py, run once, before the server has posted
StartAction(h, event) ==
    /\ pc = "serve" /\ FreeSlot(h)
    /\ github = <<>> /\ \A g \in Handlers : handlers[g].pc = "idle"
    /\ HasSlash(event.full_name)
    /\ Accept(h, "action", event)
    /\ UNCHANGED <<reviews, saved, review_timestamps, github, now>>
    /\ ParserUnchanged

\* the allow-list of a call: the handler passes settings.supported_languages,
\* main passes nothing
LangsOf(mode) == IF mode = "webhook" THEN settings.supported_languages ELSE NoFilter

\* the limit of a call: settings.max_files_per_review, MAX_FILES_PER_REVIEW
MaxFiles(mode) == settings.max_files_per_review

\* the chunks handed to review_pr with the limit forgotten
ToReviewUncapped(mode, parsed) == parsed
\* the chunks handed to review_pr: chunks[:max_files]
ToReview(mode, parsed) == PySliceTo(parsed, MaxFiles(mode))

\* there is something to review: the handler tests the parsed chunks, main
\* the limited ones
Reviews(mode, parsed) ==
    IF mode = "webhook" THEN parsed /= <<>> ELSE ToReview(mode, parsed) /= <<>>

\* get_pr_diff, LLMReviewer() or review_pr raises: HTTP 500, or the end of main
FetchOrReviewFails(h) ==
    /\ pc = "serve" /\ handlers[h].pc = "fetching"
    /\ Finish(h, "error")
    /\ UNCHANGED <<reviews, saved, review_timestamps, github, now>>
    /\ ParserUnchanged

\* the diff arrives and is parsed: "skipped" when there is nothing to review,
\* and otherwise the review, then await create_review or post_comment
Fetched(h) ==
    /\ pc = "serve" /\ handlers[h].pc = "fetching"
    /\ LET hd == handlers[h]
           raw_diff == DiffOf(hd.req.pr_number)
           parsed == ParseDiff(raw_diff, LangsOf(hd.mode))
       IN  IF Reviews(hd.mode, parsed)
           THEN /\ handlers' = [handlers EXCEPT ![h] =
                        Posting(hd.mode, hd.req, raw_diff, parsed, ToReview(hd.mode, parsed))]
                /\ UNCHANGED answer
           ELSE Finish(h, "skipped")
    /\ UNCHANGED <<reviews, saved, review_timestamps, github, now>>
    /\ ParserUnchanged

\* what GitHub receives
PostOf(hd) ==
    [kind |-> IF hd.review.total_issues > 0 THEN "review" ELSE "comment",
     by |-> hd.mode, repo |-> hd.req.full_name, pr_number |-> hd.req.pr_number,
     commit_sha |-> hd.req.commit_sha]
\* the arguments of review_db.save_review
RowOf(hd) ==
    [repo |-> hd.req.full_name, pr_number |-> hd.req.pr_number,
     commit_sha |-> hd.req.commit_sha, score |-> hd.review.overall_score,
     total_issues |-> hd.review.total_issues]

\* the handler with the row saved before the post: the post raises
PostFailsAfterSave(h) ==
    /\ pc = "serve" /\ handlers[h].pc = "posting"
    /\ IF handlers[h].mode = "webhook"
       THEN /\ reviews' = save_review(reviews, RowOf(handlers[h]))
            /\ saved' = Append(saved, RowOf(handlers[h]))
       ELSE UNCHANGED <<reviews, saved>>
    /\ Finish(h, "error")
    /\ UNCHANGED <<review_timestamps, github, now>>
    /\ ParserUnchanged

\* create_review or post_comment raises: HTTP 500
PostFails(h) ==
    /\ pc = "serve" /\ handlers[h].pc = "posting"
    /\ Finish(h, "error")
    /\ UNCHANGED <<reviews, saved, review_timestamps, github, now>>
    /\ ParserUnchanged

\* the post succeeds; the handler saves the row and returns "reviewed"
Posted(h) ==
    /\ pc = "serve" /\ handlers[h].pc = "posting"
    /\ github' = Append(github, PostOf(handlers[h]))
    /\ IF handlers[h].mode = "webhook"
       THEN /\ reviews' = save_review(reviews, RowOf(handlers[h]))
            /\ saved' = Append(saved, RowOf(handlers[h]))
       ELSE UNCHANGED <<reviews, saved>>
    /\ Finish(h, "reviewed")
    /\ UNCHANGED <<review_timestamps, now>>
    /\ ParserUnchanged

\* time passes, a minute or more than a minute, once the limiter is full
Tick ==
    /\ pc = "serve"
    /\ Len(review_timestamps) = TimestampsMaxLen
    /\ \E seconds \in {RateWindow, TickSeconds} :
           /\ now + seconds <= MaxTime
           /\ now' = now + seconds
    /\ UNCHANGED <<reviews, saved, answer, handlers, review_timestamps, github>>
    /\ ParserUnchanged

NextWebhook ==
    \/ \E h \in Handlers :
           \/ \E req \in RequestPool :
                  \/ SignatureFails(h, req) \/ Unauthorized(h, req)
                  \/ Ignored(h, req) \/ RateLimited(h, req)
                  \/ BadRequest(h, req) \/ AlreadyReviewed(h, req) \/ StartReview(h, req)
           \/ \E event \in EventPool : StartAction(h, event)
           \/ FetchOrReviewFails(h) \/ Fetched(h)
           \/ PostFails(h) \/ Posted(h)
    \/ Tick

SpecWebhook == InitWebhook /\ [][NextWebhook]_vars

(***************************************************************************)
(* C23: the size of the diff handed to parse_diff                          *)
(***************************************************************************)
\* C23: the diff text the webhook handler has handed to parse_diff is never
\* longer than settings.max_diff_lines lines.
C23_DiffBoundedBeforeParse ==
    \A h \in Handlers :
        handlers[h].pc = "posting" /\ handlers[h].mode = "webhook" =>
            LineCount(handlers[h].raw_diff) <= settings.max_diff_lines

(***************************************************************************)
(* C24: the number of chunks handed to review_pr                           *)
(***************************************************************************)
\* C24: a call that has handed chunks to review_pr (handler or Action) has
\* handed it at most max_files_per_review chunks, the first ones of the
\* output of parse_diff in their order, and parse_diff had returned at least
\* one chunk; nothing is posted for a diff that parse_diff returns no chunk
\* for.
C24_ChunksCapped ==
    /\ \A h \in Handlers :
           handlers[h].pc = "posting" =>
               LET hd == handlers[h]
                   parsed == ParseDiff(DiffOf(hd.req.pr_number), LangsOf(hd.mode))
               IN  /\ Len(hd.chunks) <= settings.max_files_per_review
                   /\ Len(hd.chunks) = Min(settings.max_files_per_review, Len(parsed))
                   /\ hd.chunks = SubSeq(parsed, 1, Len(hd.chunks))
                   /\ parsed /= <<>>
    /\ \A i \in 1..Len(github) :
           ParseDiff(DiffOf(github[i].pr_number), LangsOf(github[i].by)) /= <<>>

\* a diff without a reviewable chunk was skipped, and a call has handed
\* review_pr two of the three chunks of a diff
C24_Witness ==
    /\ answer.op = "webhook" /\ answer.status = "skipped"
    /\ \E h \in Handlers :
           /\ handlers[h].pc = "posting" /\ handlers[h].parsed = 3
           /\ Len(handlers[h].chunks) = 2

(***************************************************************************)
(* C25: the dedup of commits                                               *)
(***************************************************************************)
\* a row of the triple of the delivery was saved
RowSaved(req) ==
    \E i \in 1..Len(saved) :
        /\ saved[i].repo = req.full_name /\ saved[i].pr_number = req.pr_number
        /\ saved[i].commit_sha = req.commit_sha

\* the delivery was answered "already_reviewed" and nothing else happened
AnsweredAlreadyReviewed(req) ==
    /\ answer' = Response("webhook", req, "already_reviewed")
    /\ UNCHANGED <<handlers, reviews, saved, github>>

\* has_reviewed_commit is true exactly for a non-empty sha with a saved row
\* of the same repo, pr_number and commit_sha
DedupExact ==
    \A req \in RequestPool :
        has_reviewed_commit(reviews, req.full_name, req.pr_number, req.commit_sha)
            <=> (req.commit_sha /= "" /\ RowSaved(req))

\* C25 as stated: has_reviewed_commit is exact, and every delivery for a
\* triple with a non-empty sha whose row was saved is answered
\* "already_reviewed" without a fetch, a review, a post or a new row.
C25_SavedTripleAlreadyReviewed ==
    [][/\ DedupExact
       /\ \A h \in Handlers, req \in RequestPool :
              Deliver(h, req) /\ req.commit_sha /= "" /\ RowSaved(req) =>
                  AnsweredAlreadyReviewed(req)]_vars

\* C25: has_reviewed_commit is exact, and a delivery that passes the
\* signature, event, action, rate-limit and repository-name tests is answered
\* "already_reviewed", without a fetch, a review, a post or a new row,
\* exactly when its sha is non-empty and a row of its triple was saved.
C25_DedupExactAfterGates ==
    [][/\ DedupExact
       /\ \A h \in Handlers, req \in RequestPool :
              Deliver(h, req) /\ ReachesDedup(req) =>
                  (AnsweredAlreadyReviewed(req)
                       <=> (req.commit_sha /= "" /\ RowSaved(req)))]_vars

\* a delivery of a reviewed commit was answered "already_reviewed" while the
\* database also holds a row without a sha
C25_Witness ==
    /\ answer.op = "webhook" /\ answer.status = "already_reviewed"
    /\ answer.req.commit_sha /= "" /\ RowSaved(answer.req)
    /\ \E r \in reviews : r.commit_sha = ""

(***************************************************************************)
(* C29: overlapping deliveries of one commit                               *)
(***************************************************************************)
\* the posts of the server and the rows for the triple of a delivery
PostsFor(req) ==
    { i \in 1..Len(github) :
          /\ github[i].by = "webhook" /\ github[i].repo = req.full_name
          /\ github[i].pr_number = req.pr_number
          /\ github[i].commit_sha = req.commit_sha }
RowsFor(req) ==
    { r \in reviews :
          /\ r.repo = req.full_name /\ r.pr_number = req.pr_number
          /\ r.commit_sha = req.commit_sha }

\* C29: for every repository, pull request and non-empty commit sha the
\* server has posted at most one review and saved at most one row.
C29_OneReviewPerCommit ==
    \A req \in RequestPool :
        req.commit_sha /= "" =>
            Cardinality(PostsFor(req)) <= 1 /\ Cardinality(RowsFor(req)) <= 1

(***************************************************************************)
(* C31: the rate limit                                                     *)
(***************************************************************************)
\* the timestamps of the last 60 seconds
RECURSIVE Recent(_, _)
Recent(ts, t) ==
    IF ts = <<>> THEN <<>>
    ELSE IF t - ts[1] <= RateWindow THEN <<ts[1]>> \o Recent(Tail(ts), t)
         ELSE Recent(Tail(ts), t)

Raises(h) ==
    /\ handlers[h].pc \in {"fetching", "posting"} /\ handlers[h].mode = "webhook"
    /\ handlers'[h].pc = "idle"
    /\ answer' = Response("webhook", handlers[h].req, "error")

\* C32: every step that adds a row also hands GitHub the post of that
\* review; a call of the handler that ends with an exception (HTTP 500) adds
\* no row, so has_reviewed_commit keeps its value for every delivery, and a
\* delivery of a commit without a row that reaches the dedup test is
\* reviewed again.
C32_RowOnlyAfterPost ==
    [][/\ reviews' /= reviews =>
              /\ Len(github') = Len(github) + 1 /\ Len(saved') = Len(saved) + 1
              /\ LET post == github'[Len(github')]
                     row == saved'[Len(saved')]
                 IN  /\ post.by = "webhook" /\ post.repo = row.repo
                     /\ post.pr_number = row.pr_number
                     /\ post.commit_sha = row.commit_sha
       /\ \A h \in Handlers :
              Raises(h) =>
                  /\ UNCHANGED <<reviews, saved>>
                  /\ \A req \in RequestPool :
                         has_reviewed_commit(reviews', req.full_name,
                                             req.pr_number, req.commit_sha)
                             = SeenBefore(req)
       /\ \A h \in Handlers, req \in RequestPool :
              Deliver(h, req) /\ ReachesDedup(req) /\ ~RowSaved(req) =>
                  handlers'[h] = Fetching("webhook", req)]_vars

\* a review of a commit has failed with HTTP 500, no row of the commit is
\* saved, and a delivery of the same commit is being reviewed
C32_Witness ==
    /\ answer.op = "webhook" /\ answer.status = "error"
    /\ answer.req.commit_sha /= "" /\ ~RowSaved(answer.req)
    /\ handlers[1] = Fetching("webhook", answer.req)
    /\ handlers[2].pc = "idle"

(***************************************************************************)
(* C33: the signature test                                                 *)
(***************************************************************************)
\* C33: with a secret configured, every delivery whose signature header is
\* not the HMAC of its body is answered HTTP 401, and it changes neither the
\* timestamps of the rate limit nor the calls in flight, the table or what
\* GitHub has received.
C33_BadSignatureUnauthorized ==
    [][\A h \in Handlers, req \in RequestPool :
           ( /\ Deliver(h, req) /\ settings.github_webhook_secret
             /\ req.signature /= GoodSignature ) =>
               /\ answer' = Response("webhook", req, "unauthorized")
               /\ UNCHANGED <<handlers, review_timestamps, reviews, saved, github>>]_vars

(***************************************************************************)
(* review_pr and review_chunk (src/src/llm_reviewer.py).  What the LLM     *)
(* answers for a chunk is an input of the call.                            *)
(***************************************************************************)
\* what happens inside the try block of review_chunk: the LLM answers JSON
\* without issues, JSON with a critical issue, JSON with a warning; the
\* request raises; the answer is no JSON; an issue has an unknown severity
OutcomePool == { "clean", "critical", "warning", "api_error", "bad_json", "bad_severity" }
Raising == { "api_error", "bad_json", "bad_severity" }

\* the issues of an answer, as review_chunk builds them
LlmIssues(chunk, outcome) ==
    IF outcome \in {"critical", "warning"}
    THEN << [file_path |-> chunk.file_path, line_start |-> chunk.new_start,
             line_end |-> chunk.new_start, severity |-> outcome] >>
    ELSE <<>>

\* review_chunk with the failed chunk's review left to its caller
review_chunk_or_nothing(chunk, outcome) ==
    IF outcome \in Raising THEN <<>>
    ELSE << [file_path |-> chunk.file_path, language |-> chunk.language,
             issues |-> LlmIssues(chunk, outcome), summary |-> <<"summary">>] >>

\* review_chunk: the list of the FileReview it returns
review_chunk(chunk, outcome) ==
    IF outcome \in Raising
    THEN << [file_path |-> chunk.file_path, language |-> chunk.language,
             issues |-> <<>>, summary |-> <<"Review failed: ", outcome>>] >>
    ELSE << [file_path |-> chunk.file_path, language |-> chunk.language,
             issues |-> LlmIssues(chunk, outcome), summary |-> <<"summary">>] >>

\* the number of issues of a severity in the reviews
RECURSIVE CountSeverity(_, _)
CountSeverity(file_reviews, severity) ==
    IF file_reviews = <<>> THEN 0
    ELSE Cardinality({ i \in 1..Len(file_reviews[1].issues) :
                           severity \in {"any", file_reviews[1].issues[i].severity} })
         + CountSeverity(Tail(file_reviews), severity)

\* the PRReview of review_pr; the score in tenths
Aggregate(file_reviews) ==
    LET total == CountSeverity(file_reviews, "any")
        critical == CountSeverity(file_reviews, "critical")
        warnings == CountSeverity(file_reviews, "warning")
        score == 100 - 20 * critical - 5 * warnings - total
    IN  [file_reviews |-> file_reviews,
         overall_score |-> IF score > 0 THEN score ELSE 0,
         total_issues |-> total, critical_count |-> critical,
         warning_count |-> warnings]

\* the chunk lists review_pr is called with: slices of the chunks of the
\* diffs of pull requests 1 and 2
ReviewableChunks == ParseDiff(DiffOf(1), NoFilter) \o ParseDiff(DiffOf(2), NoFilter)
ChunkListPool ==
    { SubSeq(ReviewableChunks, i, j) :
          i \in 1..Len(ReviewableChunks), j \in 0..Len(ReviewableChunks) }

\* a call of review_pr: its argument, what the LLM did for the chunks
\* reviewed so far, file_reviews, and the PRReview once it has returned
ReviewCall(cs, outcomes, file_reviews, returned) ==
    [op |-> "review_pr", chunks |-> cs, outcomes |-> outcomes,
     file_reviews |-> file_reviews, returned |-> returned,
     review |-> IF returned THEN Aggregate(file_reviews) ELSE Aggregate(<<>>)]

InitReview ==
    /\ \E cs \in ChunkListPool : answer = ReviewCall(cs, <<>>, <<>>, FALSE)
    /\ reviews = {} /\ saved = <<>>
    /\ settings = [configured |-> FALSE]
    /\ handlers = <<>> /\ review_timestamps = <<>> /\ github = <<>> /\ now = 0
    /\ pc = "review"
    /\ language = "" /\ calls = <<>> /\ threads = <<>>
    /\ lines = <<>> /\ supported_languages = NoFilter /\ pos = 0
    /\ chunks = <<>> /\ current_file = None /\ current_hunks = <<>> /\ in_hunk = FALSE
    /\ hunk_old_start = 0 /\ hunk_new_start = 0

ReviewUnchanged ==
    UNCHANGED <<lines, supported_languages, pos, pc, chunks, current_file,
                current_hunks, hunk_old_start, hunk_new_start, in_hunk,
                language, calls, threads, reviews, saved,
                settings, handlers, review_timestamps, github, now>>

\* one turn of the loop of review_pr with a failed chunk left out
ReviewChunkSkipsFailed ==
    /\ pc = "review" /\ ~answer.returned
    /\ Len(answer.outcomes) < Len(answer.chunks)
    /\ \E outcome \in OutcomePool :
           LET chunk == answer.chunks[Len(answer.outcomes) + 1]
           IN  answer' = ReviewCall(answer.chunks, Append(answer.outcomes, outcome),
                                    answer.file_reviews \o review_chunk_or_nothing(chunk, outcome),
                                    FALSE)
    /\ ReviewUnchanged

\* one turn of the loop of review_pr
ReviewChunk ==
    /\ pc = "review" /\ ~answer.returned
    /\ Len(answer.outcomes) < Len(answer.chunks)
    /\ \E outcome \in OutcomePool :
           LET chunk == answer.chunks[Len(answer.outcomes) + 1]
           IN  answer' = ReviewCall(answer.chunks, Append(answer.outcomes, outcome),
                                    answer.file_reviews \o review_chunk(chunk, outcome),
                                    FALSE)
    /\ ReviewUnchanged

\* the loop is over: review_pr returns the PRReview
ReviewReturns ==
    /\ pc = "review" /\ ~answer.returned
    /\ Len(answer.outcomes) = Len(answer.chunks)
    /\ answer' = ReviewCall(answer.chunks, answer.outcomes, answer.file_reviews, TRUE)
    /\ ReviewUnchanged

NextReview == ReviewChunk \/ ReviewReturns

SpecReview == InitReview /\ [][NextReview]_vars

(***************************************************************************)
(* C34: one FileReview per chunk                                           *)
(***************************************************************************)
\* C34: file_reviews holds one FileReview for each chunk reviewed so far, in
\* the order of the chunks, with the path and the language of its chunk; the
\* FileReview of a chunk whose LLM call or answer failed has no issue and a
\* summary that begins "Review failed: ", the others carry the issues of the
\* answer; and the PRReview returned holds one FileReview for every chunk.
C34_OneFileReviewPerChunk ==
    answer.op = "review_pr" =>
        /\ Len(answer.file_reviews) = Len(answer.outcomes)
        /\ \A i \in 1..Len(answer.outcomes) :
               LET fr == answer.file_reviews[i]
                   chunk == answer.chunks[i]
               IN  /\ fr.file_path = chunk.file_path /\ fr.language = chunk.language
                   /\ IF answer.outcomes[i] \in Raising
                      THEN fr.issues = <<>> /\ fr.summary[1] = "Review failed: "
                      ELSE fr.issues = LlmIssues(chunk, answer.outcomes[i])
        /\ answer.returned =>
               /\ Len(answer.review.file_reviews) = Len(answer.chunks)
               /\ answer.review.file_reviews = answer.file_reviews

\* review_pr has returned for three chunks: the review of the first failed,
\* the second has a critical issue, the third none
C34_Witness ==
    /\ answer.op = "review_pr" /\ answer.returned
    /\ Len(answer.chunks) = 3
    /\ answer.outcomes[1] \in Raising /\ answer.outcomes[2] = "critical"
    /\ answer.outcomes[3] = "clean"
    /\ answer.review.total_issues = 1 /\ answer.review.overall_score = 79

(***************************************************************************)
(* C35: a newline at the end of the input                                  *)
(***************************************************************************)
\* s.endswith(p)
EndsWith(s, p) == Len(s) >= Len(p) /\ SubSeq(s, Len(s) - Len(p) + 1, Len(s)) = p

\* a chunk, and the same chunk with content that may end with one more newline
SameButNewline(a, b) ==
    /\ a.file_path = b.file_path /\ a.language = b.language
    /\ a.old_start = b.old_start /\ a.new_start = b.new_start
    /\ a.added_lines = b.added_lines /\ a.removed_lines = b.removed_lines
    /\ a.context_lines = b.context_lines
    /\ b.content \in {a.content, a.content \o NL}

\* C35: for an input that does not end with a newline, parse_diff of the
\* input followed by a newline returns as many chunks as parse_diff of the
\* input, equal one by one, but for the content of the last, which may end
\* with one more newline.
C35_TrailingNewline ==
    (Returned /\ ~EndsWith(RawDiff, NL)) =>
        LET more == ParseDiff(RawDiff \o NL, supported_languages)
        IN  /\ Len(more) = Len(chunks)
            /\ \A i \in 1..Len(chunks) :
                   IF i < Len(chunks) THEN more[i] = chunks[i]
                   ELSE SameButNewline(chunks[i], more[i])

\* the input ends inside a hunk of a second chunk: with a newline after it
\* the content of that chunk is one newline longer
C35_Witness ==
    /\ Returned /\ ~EndsWith(RawDiff, NL) /\ Len(chunks) = 2
    /\ LET more == ParseDiff(RawDiff \o NL, supported_languages)
       IN  more[1] = chunks[1] /\ more[2].content = chunks[2].content \o NL

(***************************************************************************)
(* C36: a file section without a hunk header                               *)
(***************************************************************************)
\* the last line of the file section that begins at line i
SectionEnd(i) ==
    IF \E k \in FileHeaderIdx : k > i
    THEN (CHOOSE k \in FileHeaderIdx : k > i /\ \A m \in FileHeaderIdx : m > i => k <= m) - 1
    ELSE NLines

\* the file sections without a line that begins with "@@"
HunklessSections ==
    { i \in FileHeaderIdx :
          \A k \in i..SectionEnd(i) : ~StartsWith(lines[k], <<"@","@">>) }

\* C36: for every file section of the input without a hunk-header line,
\* parse_diff returns what it returns for the input without that section.
C36_HunklessSectionAbsent ==
    Returned =>
        \A i \in HunklessSections :
            chunks = ParseDiff(Join(SubSeq(lines, 1, i - 1)
                                        \o SubSeq(lines, SectionEnd(i) + 1, NLines), NL),
                               supported_languages)

(***************************************************************************)
(* C37: the empty allow-list                                               *)
(***************************************************************************)
\* calls with no allow-list, the empty one and ["python"], on diffs of a
\* Python and a JavaScript file
AllowLinePool == { FilePy, FileJs, HunkA, AddLine, DashLine }
AllowFilterPool == { NoFilter, Only(<<>>), Only(<<"python">>) }
InitAllow == EnterCall(ListsOver(AllowLinePool, MaxLines), AllowFilterPool) /\ Nothing
SpecAllow == InitAllow /\ [][Next]_vars

\* the chunks of the languages of a list
OfLanguages(cs, langs) ==
    SelectSeq(cs, LAMBDA c : \E i \in 1..Len(langs) : langs[i] = c.language)

\* C37: a call with the empty allow-list never has a chunk in its output and
\* returns the empty sequence; a call with no allow-list returns all chunks:
\* the chunks of any allow-list are those of its result that have a language
\* of the list.
C37_EmptyAllowListIsNotAbsent ==
    /\ supported_languages = Only(<<>>) => chunks = <<>>
    /\ (Returned /\ supported_languages = NoFilter) =>
           \A langs \in { <<>>, <<"python">>, <<"javascript">>,
                          <<"python", "javascript">> } :
               ParseDiff(RawDiff, Only(langs)) = OfLanguages(chunks, langs)

\* a call with the empty allow-list has returned for an input that has two
\* chunks without an allow-list
C37_Witness ==
    /\ Returned /\ supported_languages = Only(<<>>) /\ chunks = <<>>
    /\ Len(ParseDiff(RawDiff, NoFilter)) = 2

====
